---- MODULE Spec2Model ----
(***************************************************************************)
(* KrishiMitra: three pretrained models (plant disease, crop               *)
(* recommendation, irrigation) served by thin REST handlers.               *)
(*                                                                         *)
(* Every service is its own operating-system process, so the model follows *)
(* one process at a time: Init picks the service and the files found on    *)
(* disk, the start-up action runs the module-level code, and afterwards    *)
(* every step is one whole request handler.  The variables req, resp and   *)
(* calls hold the request being answered, its response and what the handler *)
(* passed to the scaler, the model and the dataset, until Reply.           *)
(*                                                                         *)
(* Numbers.  Request fields are fixed-point integers counting hundredths   *)
(* (H(50) is 50, 650 is 6.5).  Model scores are binary floats, written as  *)
(* integers counting 1/ScoreDen.  A text is a sequence of one-character    *)
(* strings, so that split, replace, lower and "in" are computed.           *)
(***************************************************************************)
EXTENDS Integers, Sequences, FiniteSets, TLC

VARIABLES service, env, phase, model, model_loaded, model_error, dataset,
          load_attempts, req, ready_at_receipt, resp, calls, inflight

vars == <<service, env, phase, model, model_loaded, model_error, dataset,
          load_attempts, req, ready_at_receipt, resp, calls, inflight>>

\* Python's None, and the value of a global that was never assigned.
\* Optional values are records, so that any two of them can be compared.
None == [none |-> TRUE]
Unset == [unset |-> TRUE]

\* n as a fixed-point number of hundredths.
H(n) == n * 100

Min(a, b) == IF a <= b THEN a ELSE b
Abs(a) == IF a < 0 THEN 0 - a ELSE a

(***************************************************************************)
(* Texts as sequences of characters                                        *)
(***************************************************************************)
UpperChars == <<"A","B","C","D","E","F","G","H","I","J","K","L","M",
                "N","O","P","Q","R","S","T","U","V","W","X","Y","Z">>
LowerChars == <<"a","b","c","d","e","f","g","h","i","j","k","l","m",
                "n","o","p","q","r","s","t","u","v","w","x","y","z">>

\* str.lower() of one character
LowerChar(c) ==
    IF \E k \in 1..Len(UpperChars) : UpperChars[k] = c
    THEN LowerChars[CHOOSE k \in 1..Len(UpperChars) : UpperChars[k] = c]
    ELSE c

\* str.lower()
StrLower(s) == [k \in 1..Len(s) |-> LowerChar(s[k])]

\* whether sub occurs in s at position k (1-based)
OccursAt(s, sub, k) ==
    /\ k + Len(sub) - 1 <= Len(s)
    /\ \A m \in 1..Len(sub) : s[k + m - 1] = sub[m]

\* the Python expression  sub in s
StrContains(s, sub) == \E k \in 1..(Len(s) + 1) : OccursAt(s, sub, k)

\* str.replace(old, new) for one-character old and new
StrReplaceChar(s, old, new) == [k \in 1..Len(s) |-> IF s[k] = old THEN new ELSE s[k]]

\* str.split(sep) finding no separator at all
StrSplit_whole(s, sep) == <<s>>

\* str.split(sep): the parts between the successive leftmost occurrences of sep
RECURSIVE StrSplit(_, _)
StrSplit(s, sep) ==
    IF ~StrContains(s, sep)
    THEN <<s>>
    ELSE LET k == CHOOSE k \in 1..Len(s) :
                      /\ OccursAt(s, sep, k)
                      /\ \A m \in 1..(k - 1) : ~OccursAt(s, sep, m)
         IN  <<SubSeq(s, 1, k - 1)>> \o StrSplit(SubSeq(s, k + Len(sep), Len(s)), sep)

Separator == <<"_","_","_">>
HealthyWord == <<"h","e","a","l","t","h","y">>
NoneText == <<"N","o","n","e">>

(***************************************************************************)
(* Class catalogs and encoding tables                                      *)
(***************************************************************************)
\* The 38 disease labels; index i of the code is element i + 1 here.
CLASS_NAMES == <<
    (*  0 Apple___Apple_scab *)
    <<"A","p","p","l","e","_","_","_","A","p","p","l","e","_","s","c","a","b">>,
    (*  1 Apple___Black_rot *)
    <<"A","p","p","l","e","_","_","_","B","l","a","c","k","_","r","o","t">>,
    (*  2 Apple___Cedar_apple_rust *)
    <<"A","p","p","l","e","_","_","_","C","e","d","a","r","_","a","p","p","l","e","_","r","u","s","t">>,
    (*  3 Apple___healthy *)
    <<"A","p","p","l","e","_","_","_","h","e","a","l","t","h","y">>,
    (*  4 Blueberry___healthy *)
    <<"B","l","u","e","b","e","r","r","y","_","_","_","h","e","a","l","t","h","y">>,
    (*  5 Cherry_(including_sour)___Powdery_mildew *)
    <<"C","h","e","r","r","y","_","(","i","n","c","l","u","d","i","n","g","_","s","o","u","r",")","_","_","_","P","o","w","d","e","r","y","_","m","i","l","d","e","w">>,
    (*  6 Cherry_(including_sour)___healthy *)
    <<"C","h","e","r","r","y","_","(","i","n","c","l","u","d","i","n","g","_","s","o","u","r",")","_","_","_","h","e","a","l","t","h","y">>,
    (*  7 Corn_(maize)___Cercospora_leaf_spot Gray_leaf_spot *)
    <<"C","o","r","n","_","(","m","a","i","z","e",")","_","_","_","C","e","r","c","o","s","p","o","r","a","_","l","e","a","f","_","s","p","o","t"," ","G","r","a","y","_","l","e","a","f","_","s","p","o","t">>,
    (*  8 Corn_(maize)___Common_rust_ *)
    <<"C","o","r","n","_","(","m","a","i","z","e",")","_","_","_","C","o","m","m","o","n","_","r","u","s","t","_">>,
    (*  9 Corn_(maize)___Northern_Leaf_Blight *)
    <<"C","o","r","n","_","(","m","a","i","z","e",")","_","_","_","N","o","r","t","h","e","r","n","_","L","e","a","f","_","B","l","i","g","h","t">>,
    (* 10 Corn_(maize)___healthy *)
    <<"C","o","r","n","_","(","m","a","i","z","e",")","_","_","_","h","e","a","l","t","h","y">>,
    (* 11 Grape___Black_rot *)
    <<"G","r","a","p","e","_","_","_","B","l","a","c","k","_","r","o","t">>,
    (* 12 Grape___Esca_(Black_Measles) *)
    <<"G","r","a","p","e","_","_","_","E","s","c","a","_","(","B","l","a","c","k","_","M","e","a","s","l","e","s",")">>,
    (* 13 Grape___Leaf_blight_(Isariopsis_Leaf_Spot) *)
    <<"G","r","a","p","e","_","_","_","L","e","a","f","_","b","l","i","g","h","t","_","(","I","s","a","r","i","o","p","s","i","s","_","L","e","a","f","_","S","p","o","t",")">>,
    (* 14 Grape___healthy *)
    <<"G","r","a","p","e","_","_","_","h","e","a","l","t","h","y">>,
    (* 15 Orange___Haunglongbing_(Citrus_greening) *)
    <<"O","r","a","n","g","e","_","_","_","H","a","u","n","g","l","o","n","g","b","i","n","g","_","(","C","i","t","r","u","s","_","g","r","e","e","n","i","n","g",")">>,
    (* 16 Peach___Bacterial_spot *)
    <<"P","e","a","c","h","_","_","_","B","a","c","t","e","r","i","a","l","_","s","p","o","t">>,
    (* 17 Peach___healthy *)
    <<"P","e","a","c","h","_","_","_","h","e","a","l","t","h","y">>,
    (* 18 Pepper,_bell___Bacterial_spot *)
    <<"P","e","p","p","e","r",",","_","b","e","l","l","_","_","_","B","a","c","t","e","r","i","a","l","_","s","p","o","t">>,
    (* 19 Pepper,_bell___healthy *)
    <<"P","e","p","p","e","r",",","_","b","e","l","l","_","_","_","h","e","a","l","t","h","y">>,
    (* 20 Potato___Early_blight *)
    <<"P","o","t","a","t","o","_","_","_","E","a","r","l","y","_","b","l","i","g","h","t">>,
    (* 21 Potato___Late_blight *)
    <<"P","o","t","a","t","o","_","_","_","L","a","t","e","_","b","l","i","g","h","t">>,
    (* 22 Potato___healthy *)
    <<"P","o","t","a","t","o","_","_","_","h","e","a","l","t","h","y">>,
    (* 23 Raspberry___healthy *)
    <<"R","a","s","p","b","e","r","r","y","_","_","_","h","e","a","l","t","h","y">>,
    (* 24 Soybean___healthy *)
    <<"S","o","y","b","e","a","n","_","_","_","h","e","a","l","t","h","y">>,
    (* 25 Squash___Powdery_mildew *)
    <<"S","q","u","a","s","h","_","_","_","P","o","w","d","e","r","y","_","m","i","l","d","e","w">>,
    (* 26 Strawberry___Leaf_scorch *)
    <<"S","t","r","a","w","b","e","r","r","y","_","_","_","L","e","a","f","_","s","c","o","r","c","h">>,
    (* 27 Strawberry___healthy *)
    <<"S","t","r","a","w","b","e","r","r","y","_","_","_","h","e","a","l","t","h","y">>,
    (* 28 Tomato___Bacterial_spot *)
    <<"T","o","m","a","t","o","_","_","_","B","a","c","t","e","r","i","a","l","_","s","p","o","t">>,
    (* 29 Tomato___Early_blight *)
    <<"T","o","m","a","t","o","_","_","_","E","a","r","l","y","_","b","l","i","g","h","t">>,
    (* 30 Tomato___Late_blight *)
    <<"T","o","m","a","t","o","_","_","_","L","a","t","e","_","b","l","i","g","h","t">>,
    (* 31 Tomato___Leaf_Mold *)
    <<"T","o","m","a","t","o","_","_","_","L","e","a","f","_","M","o","l","d">>,
    (* 32 Tomato___Septoria_leaf_spot *)
    <<"T","o","m","a","t","o","_","_","_","S","e","p","t","o","r","i","a","_","l","e","a","f","_","s","p","o","t">>,
    (* 33 Tomato___Spider_mites Two-spotted_spider_mite *)
    <<"T","o","m","a","t","o","_","_","_","S","p","i","d","e","r","_","m","i","t","e","s"," ","T","w","o","-","s","p","o","t","t","e","d","_","s","p","i","d","e","r","_","m","i","t","e">>,
    (* 34 Tomato___Target_Spot *)
    <<"T","o","m","a","t","o","_","_","_","T","a","r","g","e","t","_","S","p","o","t">>,
    (* 35 Tomato___Tomato_Yellow_Leaf_Curl_Virus *)
    <<"T","o","m","a","t","o","_","_","_","T","o","m","a","t","o","_","Y","e","l","l","o","w","_","L","e","a","f","_","C","u","r","l","_","V","i","r","u","s">>,
    (* 36 Tomato___Tomato_mosaic_virus *)
    <<"T","o","m","a","t","o","_","_","_","T","o","m","a","t","o","_","m","o","s","a","i","c","_","v","i","r","u","s">>,
    (* 37 Tomato___healthy *)
    <<"T","o","m","a","t","o","_","_","_","h","e","a","l","t","h","y">>
>>

\* A Python dict as the sequence of its (key, value) pairs, in insertion order.
DictKeys(d) == [k \in 1..Len(d) |-> d[k][1]]
DictValues(d) == [k \in 1..Len(d) |-> d[k][2]]
DictHas(d, key) == \E k \in 1..Len(d) : d[k][1] = key
\* dict.get(key, default)
DictGet(d, key, default) ==
    IF DictHas(d, key)
    THEN d[CHOOSE k \in 1..Len(d) : d[k][1] = key][2]
    ELSE default
\* the Python expression  x in list
InList(x, list) == \E k \in 1..Len(list) : list[k] = x

district_to_encoded == <<
    <<"Khartoum", 2>>,
    <<"ALfashir", 0>>,
    <<"Algazira", 1>>,
    <<"Shendi", 4>>,
    <<"Niyala", 3>> >>

soil_color_to_encoded == <<
    <<"Black", 0>>,
    <<"Red", 5>>,
    <<"Medium Brown", 3>>,
    <<"Dark Brown", 1>>,
    <<"Light Brown", 2>>,
    <<"Reddish Brown", 6>> >>

encoded_to_label == <<
    <<0, "Cotton">>, <<1, "Ginger">>, <<2, "Gram">>, <<3, "Grapes">>,
    <<4, "Groundnut">>, <<5, "Jowar">>, <<6, "Maize">>, <<7, "Masoor">>,
    <<8, "Moong">>, <<9, "Rice">>, <<10, "Soybean">>, <<11, "Sugarcane">>,
    <<12, "Tur">>, <<13, "Turmeric">>, <<14, "Urad">>, <<15, "Wheat">> >>

\* The numeric fields of a crop request, in declaration order.  The request
\* model declares a type for each and no range.
CropNumericFields == <<"nitrogen", "phosphorus", "potassium", "ph", "rainfall", "temperature">>

\* The "ranges" object GET /options reports (hundredths).
OptionsRanges == [
    nitrogen    |-> [min |-> H(20),  max |-> H(150)],
    phosphorus  |-> [min |-> H(10),  max |-> H(90)],
    potassium   |-> [min |-> H(5),   max |-> H(150)],
    ph          |-> [min |-> 50,     max |-> 850],
    rainfall    |-> [min |-> H(300), max |-> H(1700)],
    temperature |-> [min |-> H(10),  max |-> H(40)] ]

\* The fields of IrrigationInput in declaration order, with the ge / le
\* constraints of each Field (hundredths).
IrrigationInput == <<
    [name |-> "soil_moisture",   type |-> "float", ge |-> H(0),   le |-> H(100)],
    [name |-> "temperature",     type |-> "float", ge |-> H(-10), le |-> H(60)],
    [name |-> "soil_humidity",   type |-> "float", ge |-> H(0),   le |-> H(100)],
    [name |-> "time",            type |-> "int",   ge |-> H(0),   le |-> H(23)],
    [name |-> "air_temperature", type |-> "float", ge |-> H(-10), le |-> H(50)],
    [name |-> "wind_speed",      type |-> "float", ge |-> H(0),   le |-> H(50)],
    [name |-> "air_humidity",    type |-> "float", ge |-> H(0),   le |-> H(100)],
    [name |-> "wind_gust",       type |-> "float", ge |-> H(0),   le |-> H(100)],
    [name |-> "pressure",        type |-> "float", ge |-> H(95),  le |-> H(110)],
    [name |-> "ph",              type |-> "float", ge |-> H(0),   le |-> H(14)],
    [name |-> "rainfall",        type |-> "float", ge |-> H(0),   le |-> H(500)],
    [name |-> "nitrogen",        type |-> "float", ge |-> H(0),   le |-> H(200)],
    [name |-> "phosphorus",      type |-> "float", ge |-> H(0),   le |-> H(200)],
    [name |-> "potassium",       type |-> "float", ge |-> H(0),   le |-> H(200)] >>

\* The documented example request of IrrigationInput (hundredths).
IrrigationExample == [
    soil_moisture |-> H(50), temperature |-> H(30), soil_humidity |-> H(40),
    time |-> H(12), air_temperature |-> 2550, wind_speed |-> 520,
    air_humidity |-> H(50), wind_gust |-> 1050, pressure |-> 10130,
    ph |-> 650, rainfall |-> 20050, nitrogen |-> H(80), phosphorus |-> H(45),
    potassium |-> H(40) ]

(***************************************************************************)
(* Bounds of the model                                                     *)
(***************************************************************************)
\* A loaded artifact has the catalog's number of outputs, or up to this many more.
ExtraOutputs == 1
\* The reference dataset has at most this many rows.
MaxRows == 2
\* Two equal or unequal peaks of a score vector are at most this far apart.
TieSpan == 2
\* The Flask service attempts at most this many loads in one run of the model.
MaxLoads == 2
\* The most handlers of one service that are suspended in mid-request at a
\* time (a coroutine awaiting its upload, a thread deserialising the model).
MaxInFlight == 2
\* The rows of the long dataset: a number of rows for which a share of one
\* row is halfway between two multiples of 0.0001.
LongRows == 160
\* The rows of the vast dataset: a number of rows for which a share of one
\* row is below 0.00005 and the share of all rows but one above 0.99995.
VastRows == 20001

(***************************************************************************)
(* The services and what each finds on disk                                *)
(***************************************************************************)
Services == {"disease_api", "disease_flask", "crop_api", "irrigation_api"}

\* The Streamlit forms of the three domains.
Forms == {"disease_main", "crop_app", "irrigation_app"}

FileState == {"ok", "missing", "corrupt"}

\* One row of the dataset: crop, N, P, K (hundredths), fertilizer and link.
RowNPK(crop, n, p, k, fertilizer) ==
    [Crop_string |-> crop, Nitrogen |-> H(n), Phosphorus |-> H(p), Potassium |-> H(k),
     Fertilizer |-> fertilizer, Link |-> <<"link", fertilizer, n>>]

\* A row with the phosphorus and potassium of the scenario.
Row(crop, n, fertilizer) == RowNPK(crop, n, 40, 50, fertilizer)

\* The rows the short datasets are drawn from.  "Barley" is a crop the
\* catalog does not have.
RowPool == {Row("Rice", 50, "Urea"), Row("Rice", 80, "DAP"), Row("Barley", 50, "MOP")}

SeqsUpTo(S, n) == UNION {[1..k -> S] : k \in 0..n}

\* A longer dataset: Rice with five fertilizers of 3, 2, 2, 1 and 1 rows, and
\* one row of another crop between them.
ReferenceTable == <<
    Row("Rice", 80, "DAP"),
    Row("Rice", 120, "MOP"),
    Row("Rice", 50, "Urea"),
    Row("Wheat", 65, "Potash"),
    Row("Rice", 100, "SSP"),
    Row("Rice", 85, "DAP"),
    Row("Rice", 140, "NPK"),
    Row("Rice", 125, "MOP"),
    Row("Rice", 100, "SSP"),
    Row("Rice", 90, "DAP") >>

\* A long dataset: one row of Rice with Urea, and DAP in every other row.
LongTable ==
    [k \in 1..LongRows |-> IF k = 1 THEN Row("Rice", 50, "Urea") ELSE Row("Rice", 80, "DAP")]

\* A vast dataset: one row of Rice with Urea, and DAP in every other row.
VastTable ==
    [k \in 1..VastRows |-> IF k = 1 THEN Row("Rice", 50, "Urea") ELSE Row("Rice", 80, "DAP")]

\* Two rows at the same distance, 200.21, from the request of N 32.15,
\* P 89.02 and K 130.34: the float64 sums of the two rows differ.
TiedTable == << RowNPK("Rice", 150, 55, 82, "DAP"), RowNPK("Rice", 104, 66, 25, "Urea") >>

\* The datasets read at start-up: every sequence of at most MaxRows rows of
\* the pool, every beginning of the longer dataset and the two tied rows.
\* (The long and the vast dataset are read beside a usable model only.)
Datasets ==
    SeqsUpTo(RowPool, MaxRows) \cup
    {SubSeq(ReferenceTable, 1, n) : n \in 1..Len(ReferenceTable)} \cup
    {TiedTable}

Envs(s) ==
    CASE s = "disease_api" ->
           [h5 : FileState, keras : FileState,
            outputs : Len(CLASS_NAMES)..(Len(CLASS_NAMES) + ExtraOutputs)]
      [] s = "disease_flask" ->
           [h5 : FileState, keras : FileState,
            outputs : Len(CLASS_NAMES)..(Len(CLASS_NAMES) + ExtraOutputs)]
      [] s = "crop_api" ->
           [h5 : FileState,
            csv : {[state |-> "missing"]} \cup {[state |-> "ok", rows |-> d] : d \in Datasets},
            outputs : Len(encoded_to_label)..(Len(encoded_to_label) + ExtraOutputs)]
           \cup {[h5 |-> "ok", csv |-> [state |-> "ok", rows |-> d], outputs |-> Len(encoded_to_label)] :
                    d \in {LongTable, VastTable}}
      [] s = "irrigation_api" ->
           [joblib : FileState, feature_names : FileState, model_info : FileState]
      [] s = "disease_main" ->
           [h5 : FileState, keras : FileState,
            outputs : Len(CLASS_NAMES)..(Len(CLASS_NAMES) + ExtraOutputs)]
      [] s = "crop_app" ->
           [h5 : FileState,
            csv : {[state |-> "missing"]} \cup
                  {[state |-> "ok", rows |-> d] : d \in {<< >>, ReferenceTable}},
            outputs : Len(encoded_to_label)..(Len(encoded_to_label) + ExtraOutputs)]
      [] s = "irrigation_app" ->
           [joblib : FileState, feature_names : FileState, model_info : FileState]

\* str(e) of the exception a failed load raises
LoadError(file, state) ==
    [msg |-> IF state = "missing" THEN "No such file" ELSE "Cannot deserialize", file |-> file]

NoCalls == [scaler |-> None, model |-> None, scores |-> None, dataset |-> FALSE]

Init ==
    /\ service \in Services \cup Forms
    /\ env \in Envs(service)
    /\ phase = "init"
    /\ model = IF service \in {"disease_api", "disease_flask"} \cup Forms THEN None ELSE Unset
    /\ model_loaded = FALSE
    /\ model_error = IF service = "disease_api" THEN None ELSE Unset
    /\ dataset = Unset
    /\ load_attempts = 0
    /\ req = None
    /\ ready_at_receipt = FALSE
    /\ resp = None
    /\ calls = NoCalls
    /\ inflight = << >>

\* Whether the service can run inference now.
Ready ==
    CASE service = "disease_api" -> model_loaded = TRUE
      [] service = "irrigation_api" -> model_loaded = TRUE
      [] service = "disease_flask" -> model # None
      [] service = "crop_api" -> phase = "serving"
      [] service \in Forms -> model # None

(***************************************************************************)
(* Start-up                                                                *)
(***************************************************************************)
\* disease api.py: load_model(), called once at import.
Disease_load_model ==
    /\ service = "disease_api" /\ phase = "init"
    /\ LET model_path == IF env.h5 # "missing" THEN "h5" ELSE "keras"
       IN  IF env[model_path] = "ok"
           THEN /\ model' = [outputs |-> env.outputs]
                /\ model_loaded' = TRUE
                /\ UNCHANGED model_error
           ELSE /\ model_error' = LoadError(model_path, env[model_path])
                /\ model_loaded' = FALSE
                /\ UNCHANGED model
    /\ phase' = "serving"
    /\ load_attempts' = load_attempts + 1
    /\ UNCHANGED <<inflight, service, env, dataset, req, ready_at_receipt, resp, calls>>

\* irrigation api.py: the module-level try / except.
Irrigation_startup ==
    /\ service = "irrigation_api" /\ phase = "init"
    /\ IF env.joblib # "ok"
       THEN /\ model_loaded' = FALSE
            /\ model_error' = LoadError("irrigation_model.joblib", env.joblib)
            /\ UNCHANGED model
       ELSE /\ model' = [outputs |-> 2]
            /\ IF env.feature_names # "ok"
               THEN /\ model_loaded' = FALSE
                    /\ model_error' = LoadError("feature_names.json", env.feature_names)
               ELSE IF env.model_info # "ok"
               THEN /\ model_loaded' = FALSE
                    /\ model_error' = LoadError("model_info.json", env.model_info)
               ELSE /\ model_loaded' = TRUE
                    /\ UNCHANGED model_error
    /\ phase' = "serving"
    /\ load_attempts' = load_attempts + 1
    /\ UNCHANGED <<inflight, service, env, dataset, req, ready_at_receipt, resp, calls>>

\* crop api.py: the module-level loads, outside any try.  An exception ends
\* the import, and with it the process.  StandardScaler.fit refuses a dataset
\* of no rows.
Crop_startup ==
    /\ service = "crop_api" /\ phase = "init"
    /\ load_attempts' = load_attempts + 1
    /\ IF env.h5 # "ok"
       THEN /\ phase' = "crashed"
            /\ UNCHANGED <<model, dataset>>
       ELSE /\ model' = [outputs |-> env.outputs]
            /\ IF env.csv.state = "missing"
               THEN /\ phase' = "crashed"
                    /\ UNCHANGED dataset
               ELSE /\ dataset' = [rows |-> env.csv.rows]
                    /\ phase' = IF Len(env.csv.rows) = 0 THEN "crashed" ELSE "serving"
    /\ UNCHANGED <<inflight, service, env, model_loaded, model_error, req, ready_at_receipt, resp, calls>>

Raise == [raise |-> "Could not load model file"]

\* flask_api.py lines 61-71: the model deserialised from trained_model.h5,
\* or else from trained_model.keras, or Raise when both candidates fail.
Flask_deserialise ==
    IF env.h5 = "ok" THEN [outputs |-> env.outputs]
    ELSE IF env.keras = "ok" THEN [outputs |-> env.outputs]
    ELSE Raise

\* flask_api.py: load_model().  The result is the new value of the global
\* model, or Raise when both candidates fail.
Flask_load_model ==
    IF model # None THEN model ELSE Flask_deserialise

\* flask_api.py run as a script: load_model() before app.run(); an exception
\* there ends the process.
Flask_main ==
    /\ service = "disease_flask" /\ phase = "init"
    /\ load_attempts' = load_attempts + 1
    /\ IF Flask_load_model = Raise
       THEN phase' = "crashed" /\ UNCHANGED model
       ELSE phase' = "serving" /\ model' = Flask_load_model
    /\ UNCHANGED <<inflight, service, env, model_loaded, model_error, dataset, req,
                   ready_at_receipt, resp, calls>>

\* flask_api.py served by a WSGI runner: the module is imported, the
\* __main__ block does not run and nothing is loaded.
Flask_import ==
    /\ service = "disease_flask" /\ phase = "init"
    /\ phase' = "serving"
    /\ UNCHANGED <<inflight, service, env, model, model_loaded, model_error, dataset, load_attempts,
                   req, ready_at_receipt, resp, calls>>

\* streamlit run: the server starts; the script, and with it the cached
\* loaders, runs only when a page is asked for.
Streamlit_start ==
    /\ service \in Forms /\ phase = "init"
    /\ phase' = "serving"
    /\ UNCHANGED <<inflight, service, env, model, model_loaded, model_error, dataset, load_attempts,
                   req, ready_at_receipt, resp, calls>>

Startup ==
    \/ Disease_load_model
    \/ Irrigation_startup
    \/ Crop_startup
    \/ Flask_main
    \/ Flask_import
    \/ Streamlit_start

(***************************************************************************)
(* What the opaque model returns                                           *)
(***************************************************************************)
\* Scores are binary floats: the integer s stands for s / ScoreDen.
ScoreDen == 2^6
ScoreLevels == {10, 27, ScoreDen}

\* The model is sure of its first class.
ReferenceScores(w) == [k \in 1..w |-> IF k = 1 THEN ScoreDen ELSE 0]

\* The score vectors a model of w outputs may return: zero everywhere but at
\* one or two places, so that the maximum occurs once or twice.
ScoreVectors(w) ==
    {[k \in 1..w |-> IF k = i THEN a ELSE IF k = j THEN b ELSE 0] :
        <<i, j, a, b>> \in
            {t \in (1..w) \X (1..w) \X ScoreLevels \X ScoreLevels :
                /\ t[1] <= t[2] /\ t[2] <= t[1] + TieSpan
                /\ (t[1] # t[2] => t[3] + t[4] <= ScoreDen)}}

\* numpy.max over the scores
NpMax(v) == CHOOSE x \in {v[k] : k \in 1..Len(v)} : \A k \in 1..Len(v) : v[k] <= x

\* NpArgmax taking the last place of the maximum
NpArgmax_last(v) ==
    (CHOOSE k \in 1..Len(v) :
        /\ \A m \in 1..Len(v) : v[m] <= v[k]
        /\ \A m \in (k + 1)..Len(v) : v[m] < v[k]) - 1

\* numpy.argmax over the scores: the first place of the maximum, counted from 0
NpArgmax(v) ==
    (CHOOSE k \in 1..Len(v) :
        /\ \A m \in 1..Len(v) : v[m] <= v[k]
        /\ \A m \in 1..(k - 1) : v[m] < v[k]) - 1

\* Round4 cutting off after the fourth decimal place
Round4_down(num, den) == (num * 10000) \div den

\* The number of binary digits of the natural number n.
RECURSIVE BitLength(_)
BitLength(n) == IF n = 0 THEN 0 ELSE 1 + BitLength(n \div 2)

\* Where the binary float (53 significant bits, to the nearest, a tie to the
\* even one) of a fraction lies from the fraction itself: 1 above, -1 below,
\* 0 on it.  The fraction is written out bit by bit: r / den is the part not
\* yet written, bits the significant bits written, last the last of them.
RECURSIVE FloatSide(_, _, _, _)
FloatSide(r, den, bits, last) ==
    IF r = 0 THEN 0
    ELSE IF bits >= 53
    THEN IF 2 * r > den THEN 1
         ELSE IF 2 * r < den THEN -1
         ELSE IF last = 1 THEN 1 ELSE -1
    ELSE LET bit == IF 2 * r >= den THEN 1 ELSE 0
         IN  FloatSide(2 * r - bit * den, den,
                       IF bits > 0 \/ bit = 1 THEN bits + 1 ELSE 0, bit)

\* round(num / den, 4) as a count of ten-thousandths: the float num / den to
\* the nearest multiple of 0.0001.  When num / den is halfway between two of
\* them, the float decides: it lies above or below the halfway point unless
\* num / den is a binary fraction, and then the even multiple is taken.
Round4(num, den) ==
    LET q == (num * 10000) \div den
        r == (num * 10000) % den
        side == FloatSide(num % den, den, BitLength(num \div den), (num \div den) % 2)
    IN  IF 2 * r < den THEN q
        ELSE IF 2 * r > den THEN q + 1
        ELSE IF side > 0 THEN q + 1
        ELSE IF side < 0 THEN q
        ELSE IF q % 2 = 0 THEN q ELSE q + 1

(***************************************************************************)
(* Binary floats (float64) of the fertilizer distance                      *)
(***************************************************************************)
\* The magnitude of a float64 (below 4096 for a number of the request or of
\* the dataset) is held exactly as a count of 2^-60 in three digits of 24
\* bits, <<a, b, c>> for a * 2^48 + b * 2^24 + c: every float64 from 0.01 up
\* is a multiple of 2^-59.
Float64_digit == 2^24

\* The float64 nearest to the count <<a, b, c>> (plus a part below 2^-60
\* when sticky): 53 significant bits are kept, the rest goes to the nearest,
\* a tie to the even one.
Float64_round(a, b, c, sticky) ==
    LET bits == IF a > 0 THEN 48 + BitLength(a)
                ELSE IF b > 0 THEN 24 + BitLength(b) ELSE BitLength(c)
        s == IF bits > 53 THEN bits - 53 ELSE 0
        low == c % 2^s
        up == s > 0 /\ (\/ 2 * low > 2^s
                        \/ 2 * low = 2^s /\ (sticky \/ (c \div 2^s) % 2 = 1))
        c2 == c - low + (IF up THEN 2^s ELSE 0)
        b2 == b + c2 \div Float64_digit
    IN  <<a + b2 \div Float64_digit, b2 % Float64_digit, c2 % Float64_digit>>

\* The float64 nearest to h hundredths, for h >= 0.
Float64_magnitude(h) ==
    LET a == (h * 2^12) \div 100
        ra == (h * 2^12) % 100
        b == (ra * Float64_digit) \div 100
        rb == (ra * Float64_digit) % 100
        c == (rb * Float64_digit) \div 100
        rc == (rb * Float64_digit) % 100
    IN  Float64_round(a, b, c, rc > 0)

\* The float64 of a number given in hundredths, as a sign and a magnitude:
\* what the JSON parser makes of the request's number, and read_csv of the
\* dataset's.
Float64(h) == [negative |-> h < 0, magnitude |-> Float64_magnitude(Abs(h))]

\* x < y of two float64 that are not negative
Float64_less(x, y) ==
    \/ x[1] < y[1]
    \/ x[1] = y[1] /\ x[2] < y[2]
    \/ x[1] = y[1] /\ x[2] = y[2] /\ x[3] < y[3]

\* x + y of two float64 that are not negative
Float64_add(x, y) ==
    LET c == x[3] + y[3]
        b == x[2] + y[2] + c \div Float64_digit
        a == x[1] + y[1] + b \div Float64_digit
    IN  Float64_round(a, b % Float64_digit, c % Float64_digit, FALSE)

\* abs(x - y) of two float64: the difference of the magnitudes when the
\* signs agree, their sum otherwise.
Float64_absdiff(x, y) ==
    LET less == Float64_less(x.magnitude, y.magnitude)
        hi == IF less THEN y.magnitude ELSE x.magnitude
        lo == IF less THEN x.magnitude ELSE y.magnitude
        c == hi[3] - lo[3]
        cb == IF c < 0 THEN 1 ELSE 0
        b == hi[2] - lo[2] - cb
        bb == IF b < 0 THEN 1 ELSE 0
    IN  IF x.negative # y.negative
        THEN Float64_add(x.magnitude, y.magnitude)
        ELSE Float64_round(hi[1] - lo[1] - bb, b + bb * Float64_digit, c + cb * Float64_digit, FALSE)

\* A confidence as the fraction num / den.
Frac(num, den) == [num |-> num, den |-> den]
FracEq(x, y) == x.num * y.den = y.num * x.den

\* The f-string format ":.<digits>f" of the percentage of a score (score /
\* ScoreDen * 100, a binary fraction the float holds exactly): the nearest
\* number with that many decimals, a tie going to the even one, as a
\* fraction over 10^digits.
FormatPercent(score, digits) ==
    LET q == (score * 100 * 10^digits) \div ScoreDen
        r == (score * 100 * 10^digits) % ScoreDen
    IN  Frac(IF 2 * r < ScoreDen THEN q
             ELSE IF 2 * r > ScoreDen THEN q + 1
             ELSE IF q % 2 = 0 THEN q ELSE q + 1,
             10^digits)

(***************************************************************************)
(* Disease service, api.py                                                 *)
(***************************************************************************)
ImageModes == {"L", "P", "RGB", "RGBA"}
ImageSizes == {<<128, 128>>, <<640, 480>>}
Channels(mode) == CASE mode = "L" -> 1 [] mode = "P" -> 1 [] mode = "RGB" -> 3 [] mode = "RGBA" -> 4

\* The bytes of an upload: not an image, or an image of some mode and size.
Images == {[decodable |-> FALSE]} \cup
          [decodable : {TRUE}, mode : ImageModes, size : ImageSizes]

ContentTypes == {None, [major |-> "image", minor |-> "png"], [major |-> "text", minor |-> "plain"]}

\* The multipart field the upload came in ("" when the request has none) and
\* the file name it carries.
\* spooled: whether the framework holds the upload in a file on disk (it
\* does for an upload over 1 MB), so that reading it takes a worker thread.
Uploads(fields, filenames, ctypes) ==
    [field : fields, filename : filenames, content_type : ctypes, image : Images,
     spooled : {FALSE}]

\* The sequence s without its element k.
RemoveAt(s, k) == SubSeq(s, 1, k - 1) \o SubSeq(s, k + 1, Len(s))

\* The reference upload: an RGB image of the model's own size, sent as it
\* should be.
ReferenceImage == [decodable |-> TRUE, mode |-> "RGB", size |-> <<128, 128>>]

\* The opaque model is exercised along two axes: every request with the
\* reference scores, and the reference request with every score vector.
Cases(requests, reference, w) ==
    {<<r, ReferenceScores(w)>> : r \in requests} \cup
    {<<reference, s>> : s \in ScoreVectors(w)}

\* The same while other handlers are suspended in mid-request: the requests
\* that arrive then are the given ones, with the reference scores.
CasesInFlight(requests, reference, w, arriving) ==
    IF inflight = << >> THEN Cases(requests, reference, w)
    ELSE {<<r, ReferenceScores(w)>> : r \in arriving}

\* The same for the service that holds a dataset, which /predict does not
\* read: beside a dataset longer than the reference one the request is the
\* reference request with the reference scores.
CasesOfDataset(requests, reference, w) ==
    IF Len(dataset.rows) > Len(ReferenceTable)
    THEN {<<reference, ReferenceScores(w)>>}
    ELSE Cases(requests, reference, w)

\* The number of outputs of the loaded model (of the catalog's size before a
\* load: no scores are drawn then).
Outputs(m, catalog) == IF "outputs" \in DOMAIN m THEN m.outputs ELSE Len(catalog)

HTTPException(status_code, detail) == [status |-> status_code, detail |-> detail]
Ok(body) == [status |-> 200, body |-> body]

\* An exception that is not an HTTPException, with the text str(e) gives.
Exception(e) == [raise |-> e]

\* api.py lines 212-213: whatever the try block raises becomes a 500 whose
\* detail carries the text of the exception.
Disease_except(e) == HTTPException(500, [msg |-> "Prediction error: ", e |-> e.raise])

\* api.py lines 174-183: convert to RGB, resize, to array, add the batch axis.
\* The result is the shape of the array handed to the model and the largest
\* value an element may have.
Disease_input_arr(image) ==
    LET mode == IF image.mode # "RGB" THEN "RGB" ELSE image.mode
    IN  [shape |-> <<1, 128, 128, Channels(mode)>>, maxval |-> 255]

HealthyTemplate == "Your {plant} plant appears healthy! Continue with regular care and monitoring."
DiseaseTemplate == "Disease detected: {condition}. Consider consulting an agricultural expert for treatment options."

\* Disease_format deciding is_healthy from the plant part alone
Disease_format_plant(prediction) ==
    LET result_index == NpArgmax(prediction)
        confidence == Frac(NpMax(prediction), ScoreDen)
    IN  IF result_index >= Len(CLASS_NAMES)
        THEN Disease_except(Exception("list index out of range"))
        ELSE
        LET raw_class == CLASS_NAMES[result_index + 1]
            parts == StrSplit(raw_class, Separator)
            plant == StrReplaceChar(parts[1], "_", " ")
            condition == StrReplaceChar(parts[2], "_", " ")
            is_healthy == StrContains(StrLower(parts[1]), HealthyWord)
            recommendation ==
                IF is_healthy
                THEN [template |-> HealthyTemplate, arg |-> plant]
                ELSE [template |-> DiseaseTemplate, arg |-> condition]
        IN  Ok([plant |-> plant,
                disease |-> IF ~is_healthy THEN condition ELSE NoneText,
                is_healthy |-> is_healthy,
                confidence |-> confidence,
                raw_class |-> raw_class,
                recommendation |-> recommendation])

\* api.py lines 187-210: from the scores to the response, or the exception
\* the try block turns into a 500.
Disease_format(prediction) ==
    LET result_index == NpArgmax(prediction)
        confidence == Frac(NpMax(prediction), ScoreDen)
    IN  IF result_index >= Len(CLASS_NAMES)
        THEN Disease_except(Exception("list index out of range"))
        ELSE
        LET raw_class == CLASS_NAMES[result_index + 1]
            parts == StrSplit(raw_class, Separator)
        IN  IF Len(parts) # 2
            THEN Disease_except(Exception("cannot unpack"))
            ELSE
            LET plant == StrReplaceChar(parts[1], "_", " ")
                condition == StrReplaceChar(parts[2], "_", " ")
                is_healthy == StrContains(StrLower(raw_class), HealthyWord)
                recommendation ==
                    IF is_healthy
                    THEN [template |-> HealthyTemplate, arg |-> plant]
                    ELSE [template |-> DiseaseTemplate, arg |-> condition]
            IN  Ok([plant |-> plant,
                    disease |-> IF ~is_healthy THEN condition ELSE NoneText,
                    is_healthy |-> is_healthy,
                    confidence |-> confidence,
                    raw_class |-> raw_class,
                    recommendation |-> recommendation])

\* The uploads of the disease service that are held on disk: the reference
\* image and a file that is no image, both sent as they should be.
DiskUploads ==
    {[field |-> "file", filename |-> "leaf.png",
      content_type |-> [major |-> "image", minor |-> "png"],
      image |-> i, spooled |-> TRUE] : i \in {ReferenceImage, [decodable |-> FALSE]}}

\* api.py lines 169-213: the try block once the upload was read, as the
\* response and the calls made.
Disease_try(file, prediction) ==
    IF ~file.image.decodable
    THEN [resp |-> Disease_except(Exception("cannot identify image file")),
          calls |-> NoCalls]
    ELSE [resp |-> Disease_format(prediction),
          calls |-> [NoCalls EXCEPT !.model = Disease_input_arr(file.image),
                                    !.scores = [vec |-> prediction]]]

\* POST /predict of api.py.  A request without the required "file" part is
\* answered 422 by the framework before the handler runs.  The handler is a
\* coroutine: at "await file.read()" (line 171) an upload held on disk is
\* read in a worker thread and the event loop runs other handlers meanwhile,
\* an upload held in memory is read at once.
predict_disease ==
    /\ service = "disease_api" /\ phase = "serving" /\ resp = None
    /\ \E c \in CasesInFlight(
                    Uploads({"file", ""}, {"leaf.png"}, ContentTypes) \cup DiskUploads,
                    [field |-> "file", filename |-> "leaf.png",
                     content_type |-> [major |-> "image", minor |-> "png"],
                     image |-> ReferenceImage, spooled |-> FALSE],
                    Outputs(model, CLASS_NAMES),
                    DiskUploads \cup
                        {[field |-> "file", filename |-> "leaf.png",
                          content_type |-> [major |-> "image", minor |-> "png"],
                          image |-> ReferenceImage, spooled |-> FALSE]}) :
      LET file == c[1]
          prediction == c[2]
          request == [op |-> "predict", file |-> file]
      IN
        IF file.field = "file" /\ model_loaded
            /\ file.content_type # None /\ file.content_type.major = "image"
            /\ file.spooled
        THEN /\ Len(inflight) < MaxInFlight
             /\ inflight' = Append(inflight, [req |-> request, ready_at_receipt |-> Ready])
             /\ UNCHANGED <<req, ready_at_receipt, resp, calls>>
        ELSE /\ req' = request
             /\ ready_at_receipt' = Ready
             /\ UNCHANGED inflight
             /\ IF file.field # "file"
                THEN /\ resp' = HTTPException(422, [msg |-> "Field required", loc |-> {"file"}])
                     /\ calls' = NoCalls
                ELSE IF ~model_loaded
                THEN /\ resp' = HTTPException(503, [msg |-> "Model not loaded: ", e |-> model_error])
                     /\ calls' = NoCalls
                ELSE IF file.content_type = None \/ file.content_type.major # "image"
                THEN /\ resp' = HTTPException(400, [msg |-> "File must be an image (JPG, PNG)"])
                     /\ calls' = NoCalls
                ELSE /\ resp' = Disease_try(file, prediction).resp
                     /\ calls' = Disease_try(file, prediction).calls
    /\ UNCHANGED <<service, env, phase, model, model_loaded, model_error, dataset, load_attempts>>

\* api.py lines 171-213: the upload of a suspended POST /predict was read
\* and its coroutine runs on, to the response.  The scores vary for the
\* reference image when no other coroutine is suspended.
predict_disease_resume ==
    /\ service = "disease_api" /\ phase = "serving" /\ resp = None
    /\ \E k \in 1..Len(inflight) :
         LET file == inflight[k].req.file
             w == Outputs(model, CLASS_NAMES)
         IN  \E prediction \in (IF file.image = ReferenceImage /\ Len(inflight) = 1
                                THEN ScoreVectors(w) ELSE {ReferenceScores(w)}) :
               /\ req' = inflight[k].req
               /\ ready_at_receipt' = inflight[k].ready_at_receipt
               /\ resp' = Disease_try(file, prediction).resp
               /\ calls' = Disease_try(file, prediction).calls
               /\ inflight' = RemoveAt(inflight, k)
    /\ UNCHANGED <<service, env, phase, model, model_loaded, model_error, dataset, load_attempts>>

\* GET /health of api.py
Disease_health_check ==
    /\ service = "disease_api" /\ phase = "serving" /\ resp = None
    /\ req' = [op |-> "health"]
    /\ resp' = Ok([status |-> IF model_loaded THEN "healthy" ELSE "unhealthy",
                   model_loaded |-> model_loaded,
                   error |-> IF ~model_loaded THEN model_error ELSE None,
                   num_classes |-> Len(CLASS_NAMES)])
    /\ calls' = NoCalls
    /\ ready_at_receipt' = Ready
    /\ UNCHANGED <<inflight, service, env, phase, model, model_loaded, model_error, dataset, load_attempts>>

\* api.py lines 141-148: the entry of GET /classes for one label, or the
\* exception of the unpacking when the label does not split in two.
Disease_class_info(cls) ==
    LET parts == StrSplit(cls, Separator)
    IN  IF Len(parts) # 2
        THEN Exception("not enough values to unpack")
        ELSE [raw |-> cls,
              plant |-> StrReplaceChar(parts[1], "_", " "),
              condition |-> StrReplaceChar(parts[2], "_", " "),
              is_healthy |-> StrContains(StrLower(cls), HealthyWord)]

\* GET /classes of api.py.  The handler has no try block: an exception is
\* answered by the framework with a bare 500.
get_classes ==
    /\ service = "disease_api" /\ phase = "serving" /\ resp = None
    /\ req' = [op |-> "classes"]
    /\ LET classes_info == [i \in 1..Len(CLASS_NAMES) |-> Disease_class_info(CLASS_NAMES[i])]
       IN  resp' = IF \E i \in 1..Len(CLASS_NAMES) : "raise" \in DOMAIN classes_info[i]
                   THEN HTTPException(500, [msg |-> "Internal Server Error"])
                   ELSE Ok([total_classes |-> Len(CLASS_NAMES), classes |-> classes_info])
    /\ calls' = NoCalls
    /\ ready_at_receipt' = Ready
    /\ UNCHANGED <<inflight, service, env, phase, model, model_loaded, model_error, dataset, load_attempts>>

(***************************************************************************)
(* Disease service, flask_api.py                                           *)
(***************************************************************************)
\* flask_api.py lines 17-56: the service's own copy of the catalog
Flask_CLASS_NAMES == <<
    (*  0 Apple___Apple_scab *)
    <<"A","p","p","l","e","_","_","_","A","p","p","l","e","_","s","c","a","b">>,
    (*  1 Apple___Black_rot *)
    <<"A","p","p","l","e","_","_","_","B","l","a","c","k","_","r","o","t">>,
    (*  2 Apple___Cedar_apple_rust *)
    <<"A","p","p","l","e","_","_","_","C","e","d","a","r","_","a","p","p","l","e","_","r","u","s","t">>,
    (*  3 Apple___healthy *)
    <<"A","p","p","l","e","_","_","_","h","e","a","l","t","h","y">>,
    (*  4 Blueberry___healthy *)
    <<"B","l","u","e","b","e","r","r","y","_","_","_","h","e","a","l","t","h","y">>,
    (*  5 Cherry_(including_sour)___Powdery_mildew *)
    <<"C","h","e","r","r","y","_","(","i","n","c","l","u","d","i","n","g","_","s","o","u","r",")","_","_","_","P","o","w","d","e","r","y","_","m","i","l","d","e","w">>,
    (*  6 Cherry_(including_sour)___healthy *)
    <<"C","h","e","r","r","y","_","(","i","n","c","l","u","d","i","n","g","_","s","o","u","r",")","_","_","_","h","e","a","l","t","h","y">>,
    (*  7 Corn_(maize)___Cercospora_leaf_spot Gray_leaf_spot *)
    <<"C","o","r","n","_","(","m","a","i","z","e",")","_","_","_","C","e","r","c","o","s","p","o","r","a","_","l","e","a","f","_","s","p","o","t"," ","G","r","a","y","_","l","e","a","f","_","s","p","o","t">>,
    (*  8 Corn_(maize)___Common_rust_ *)
    <<"C","o","r","n","_","(","m","a","i","z","e",")","_","_","_","C","o","m","m","o","n","_","r","u","s","t","_">>,
    (*  9 Corn_(maize)___Northern_Leaf_Blight *)
    <<"C","o","r","n","_","(","m","a","i","z","e",")","_","_","_","N","o","r","t","h","e","r","n","_","L","e","a","f","_","B","l","i","g","h","t">>,
    (* 10 Corn_(maize)___healthy *)
    <<"C","o","r","n","_","(","m","a","i","z","e",")","_","_","_","h","e","a","l","t","h","y">>,
    (* 11 Grape___Black_rot *)
    <<"G","r","a","p","e","_","_","_","B","l","a","c","k","_","r","o","t">>,
    (* 12 Grape___Esca_(Black_Measles) *)
    <<"G","r","a","p","e","_","_","_","E","s","c","a","_","(","B","l","a","c","k","_","M","e","a","s","l","e","s",")">>,
    (* 13 Grape___Leaf_blight_(Isariopsis_Leaf_Spot) *)
    <<"G","r","a","p","e","_","_","_","L","e","a","f","_","b","l","i","g","h","t","_","(","I","s","a","r","i","o","p","s","i","s","_","L","e","a","f","_","S","p","o","t",")">>,
    (* 14 Grape___healthy *)
    <<"G","r","a","p","e","_","_","_","h","e","a","l","t","h","y">>,
    (* 15 Orange___Haunglongbing_(Citrus_greening) *)
    <<"O","r","a","n","g","e","_","_","_","H","a","u","n","g","l","o","n","g","b","i","n","g","_","(","C","i","t","r","u","s","_","g","r","e","e","n","i","n","g",")">>,
    (* 16 Peach___Bacterial_spot *)
    <<"P","e","a","c","h","_","_","_","B","a","c","t","e","r","i","a","l","_","s","p","o","t">>,
    (* 17 Peach___healthy *)
    <<"P","e","a","c","h","_","_","_","h","e","a","l","t","h","y">>,
    (* 18 Pepper,_bell___Bacterial_spot *)
    <<"P","e","p","p","e","r",",","_","b","e","l","l","_","_","_","B","a","c","t","e","r","i","a","l","_","s","p","o","t">>,
    (* 19 Pepper,_bell___healthy *)
    <<"P","e","p","p","e","r",",","_","b","e","l","l","_","_","_","h","e","a","l","t","h","y">>,
    (* 20 Potato___Early_blight *)
    <<"P","o","t","a","t","o","_","_","_","E","a","r","l","y","_","b","l","i","g","h","t">>,
    (* 21 Potato___Late_blight *)
    <<"P","o","t","a","t","o","_","_","_","L","a","t","e","_","b","l","i","g","h","t">>,
    (* 22 Potato___healthy *)
    <<"P","o","t","a","t","o","_","_","_","h","e","a","l","t","h","y">>,
    (* 23 Raspberry___healthy *)
    <<"R","a","s","p","b","e","r","r","y","_","_","_","h","e","a","l","t","h","y">>,
    (* 24 Soybean___healthy *)
    <<"S","o","y","b","e","a","n","_","_","_","h","e","a","l","t","h","y">>,
    (* 25 Squash___Powdery_mildew *)
    <<"S","q","u","a","s","h","_","_","_","P","o","w","d","e","r","y","_","m","i","l","d","e","w">>,
    (* 26 Strawberry___Leaf_scorch *)
    <<"S","t","r","a","w","b","e","r","r","y","_","_","_","L","e","a","f","_","s","c","o","r","c","h">>,
    (* 27 Strawberry___healthy *)
    <<"S","t","r","a","w","b","e","r","r","y","_","_","_","h","e","a","l","t","h","y">>,
    (* 28 Tomato___Bacterial_spot *)
    <<"T","o","m","a","t","o","_","_","_","B","a","c","t","e","r","i","a","l","_","s","p","o","t">>,
    (* 29 Tomato___Early_blight *)
    <<"T","o","m","a","t","o","_","_","_","E","a","r","l","y","_","b","l","i","g","h","t">>,
    (* 30 Tomato___Late_blight *)
    <<"T","o","m","a","t","o","_","_","_","L","a","t","e","_","b","l","i","g","h","t">>,
    (* 31 Tomato___Leaf_Mold *)
    <<"T","o","m","a","t","o","_","_","_","L","e","a","f","_","M","o","l","d">>,
    (* 32 Tomato___Septoria_leaf_spot *)
    <<"T","o","m","a","t","o","_","_","_","S","e","p","t","o","r","i","a","_","l","e","a","f","_","s","p","o","t">>,
    (* 33 Tomato___Spider_mites Two-spotted_spider_mite *)
    <<"T","o","m","a","t","o","_","_","_","S","p","i","d","e","r","_","m","i","t","e","s"," ","T","w","o","-","s","p","o","t","t","e","d","_","s","p","i","d","e","r","_","m","i","t","e">>,
    (* 34 Tomato___Target_Spot *)
    <<"T","o","m","a","t","o","_","_","_","T","a","r","g","e","t","_","S","p","o","t">>,
    (* 35 Tomato___Tomato_Yellow_Leaf_Curl_Virus *)
    <<"T","o","m","a","t","o","_","_","_","T","o","m","a","t","o","_","Y","e","l","l","o","w","_","L","e","a","f","_","C","u","r","l","_","V","i","r","u","s">>,
    (* 36 Tomato___Tomato_mosaic_virus *)
    <<"T","o","m","a","t","o","_","_","_","T","o","m","a","t","o","_","m","o","s","a","i","c","_","v","i","r","u","s">>,
    (* 37 Tomato___healthy *)
    <<"T","o","m","a","t","o","_","_","_","h","e","a","l","t","h","y">>
>>

\* flask_api.py preprocess_image after the conversion to RGB of lines 116-117.
preprocess_image(image) ==
    LET mode == IF image.mode # "RGB" THEN "RGB" ELSE image.mode
    IN  [shape |-> <<1, 128, 128, Channels(mode)>>, maxval |-> 255]

\* flask_api.py lines 143-147: any exception of the handler becomes a 500
\* whose body carries the text of the exception.
Flask_except(e) == [status |-> 500, error |-> [e |-> e.raise]]

\* flask_api.py line 106: request.files.get('image') or request.files.get('file').
\* An upload with an empty file name is falsy, so an empty 'image' part gives
\* way to the 'file' part, which this request does not have.
Flask_image_file(file) ==
    IF file.field = "image" /\ file.filename = "" THEN None ELSE file

\* flask_api.py lines 127-141
Flask_format(predictions) ==
    LET predicted_index == NpArgmax(predictions)
        confidence == Frac(predictions[predicted_index + 1], ScoreDen)
    IN  IF predicted_index >= Len(Flask_CLASS_NAMES)
        THEN Flask_except(Exception("list index out of range"))
        ELSE Ok([class |-> Flask_CLASS_NAMES[predicted_index + 1],
                 confidence |-> confidence,
                 all_predictions |-> [i \in 1..Len(Flask_CLASS_NAMES) |-> predictions[i]]])

\* POST /predict of flask_api.py.  The handler calls load_model() itself.
\* Requests run in threads of their own: a thread that finds the global
\* model None (line 60) deserialises the file, and other threads run until
\* it assigns the global (lines 62, 68).  The requests are varied one axis
\* at a time: a request that arrives while a deserialisation is under way is
\* the reference request.
Flask_predict ==
    /\ service = "disease_flask" /\ phase = "serving" /\ resp = None
    /\ \E c \in CasesInFlight(
                    Uploads({"image", "file", ""}, {"leaf.png", ""},
                            {[major |-> "image", minor |-> "png"]}),
                    [field |-> "image", filename |-> "leaf.png",
                     content_type |-> [major |-> "image", minor |-> "png"],
                     image |-> ReferenceImage, spooled |-> FALSE],
                    Outputs(Flask_load_model, Flask_CLASS_NAMES),
                    {[field |-> "image", filename |-> "leaf.png",
                      content_type |-> [major |-> "image", minor |-> "png"],
                      image |-> ReferenceImage, spooled |-> FALSE]}) :
      LET file == c[1]
          predictions == c[2]
          request == [op |-> "predict", file |-> file]
      IN
        IF file.field # "" /\ Flask_image_file(file) # None /\ file.filename # ""
            /\ file.image.decodable /\ model = None
        THEN /\ load_attempts < MaxLoads /\ Len(inflight) < MaxInFlight
             /\ load_attempts' = load_attempts + 1
             /\ inflight' = Append(inflight, [req |-> request, ready_at_receipt |-> Ready])
             /\ UNCHANGED <<req, ready_at_receipt, resp, calls>>
        ELSE /\ req' = request
             /\ ready_at_receipt' = Ready
             /\ UNCHANGED <<inflight, load_attempts>>
             /\ IF file.field = ""
                THEN /\ resp' = [status |-> 400, error |-> [e |-> "No image file provided. Use 'image' or 'file' field name."]]
                     /\ calls' = NoCalls
                ELSE IF Flask_image_file(file) = None
                THEN /\ resp' = Flask_except(Exception("'NoneType' object has no attribute 'filename'"))
                     /\ calls' = NoCalls
                ELSE IF file.filename = ""
                THEN /\ resp' = [status |-> 400, error |-> [e |-> "No file selected"]]
                     /\ calls' = NoCalls
                ELSE IF ~file.image.decodable
                THEN /\ resp' = Flask_except(Exception("cannot identify image file"))
                     /\ calls' = NoCalls
                ELSE /\ calls' = [NoCalls EXCEPT !.model = preprocess_image(file.image),
                                                 !.scores = [vec |-> predictions]]
                     /\ resp' = Flask_format(predictions)
    /\ UNCHANGED <<service, env, phase, model, model_loaded, model_error, dataset>>

\* flask_api.py lines 62-72 and 124-147: the deserialisation a thread began
\* ends; the thread assigns the global model, whatever it holds by now, and
\* goes on to predict, or answers 500 when no file could be loaded.  The
\* scores vary for the reference request when no other thread is loading.
Flask_predict_resume ==
    /\ service = "disease_flask" /\ phase = "serving" /\ resp = None
    /\ \E k \in 1..Len(inflight) :
         LET file == inflight[k].req.file
             w == Outputs(Flask_deserialise, Flask_CLASS_NAMES)
         IN  \E predictions \in (IF file.field = "image" /\ file.image = ReferenceImage
                                        /\ Len(inflight) = 1
                                 THEN ScoreVectors(w) ELSE {ReferenceScores(w)}) :
               /\ req' = inflight[k].req
               /\ ready_at_receipt' = inflight[k].ready_at_receipt
               /\ inflight' = RemoveAt(inflight, k)
               /\ IF Flask_deserialise = Raise
                  THEN /\ resp' = Flask_except(Raise)
                       /\ calls' = NoCalls
                       /\ UNCHANGED model
                  ELSE /\ model' = Flask_deserialise
                       /\ calls' = [NoCalls EXCEPT !.model = preprocess_image(file.image),
                                                   !.scores = [vec |-> predictions]]
                       /\ resp' = Flask_format(predictions)
    /\ UNCHANGED <<service, env, phase, model_loaded, model_error, dataset, load_attempts>>

(***************************************************************************)
(* Irrigation service, api.py                                              *)
(***************************************************************************)
Malformed == [wellformed |-> FALSE]
Body(values) == [wellformed |-> TRUE, values |-> values]

\* The values tried for one field: its two bounds, and just and well outside
\* each of them.
ProbeValues(lo, hi) == {lo - 100, lo - 1, lo, hi, hi + 1, hi + 100}

\* The example request, and the example with one field changed.
IrrigationBodies ==
    {Malformed, Body(IrrigationExample)} \cup
    UNION {{Body([IrrigationExample EXCEPT ![IrrigationInput[k].name] = v]) :
                v \in ProbeValues(IrrigationInput[k].ge, IrrigationInput[k].le)} :
            k \in 1..Len(IrrigationInput)}

\* The class probabilities the binary model may report (OFF, ON), and the
\* class its predict() gives for them: the first of the largest.
IrrigationProbabilities == {<<a, ScoreDen - a>> : a \in {0, 16, 32, 48, ScoreDen}}

\* What the model returns for one feature vector: predict(features)[0] and
\* predict_proba(features)[0].
IrrigationOutputs == {[class |-> NpArgmax(p), proba |-> p] : p \in IrrigationProbabilities}

\* IrrigationInput_errors with le read as a strict bound
IrrigationInput_errors_exclusive(values) ==
    {IrrigationInput[k].name : k \in
        {k \in 1..Len(IrrigationInput) :
            LET f == IrrigationInput[k]
                v == values[f.name]
            IN  \/ (f.type = "int" /\ v % 100 # 0)
                \/ ~(v >= f.ge)
                \/ ~(v < f.le)}}

\* The fields of a body that fail validation: an int field given a number
\* with a fractional part, or a value below ge or above le.
IrrigationInput_errors(values) ==
    {IrrigationInput[k].name : k \in
        {k \in 1..Len(IrrigationInput) :
            LET f == IrrigationInput[k]
                v == values[f.name]
            IN  \/ (f.type = "int" /\ v % 100 # 0)
                \/ ~(v >= f.ge)
                \/ ~(v <= f.le)}}

\* api.py lines 140-155: the feature vector
Irrigation_features(input_data) == <<
    input_data.soil_moisture,
    input_data.temperature,
    input_data.soil_humidity,
    input_data.time,
    input_data.air_temperature,
    input_data.wind_speed,
    input_data.air_humidity,
    input_data.wind_gust,
    input_data.pressure,
    input_data.ph,
    input_data.rainfall,
    input_data.nitrogen,
    input_data.phosphorus,
    input_data.potassium >>

OnText == "Your crops need water. It is recommended to turn ON the irrigation system."
OffText == "Irrigation is not needed at this time. Keep the irrigation system OFF."

\* Irrigation_format reporting the probability of ON as the confidence
Irrigation_format_on(prediction, probabilities) ==
    LET status == IF prediction = 1 THEN "ON" ELSE "OFF"
        confidence == Frac(probabilities[2], ScoreDen)
        recommendation == IF status = "ON" THEN OnText ELSE OffText
    IN  Ok([status |-> status,
            confidence |-> confidence,
            probabilities |-> [OFF |-> Frac(probabilities[1], ScoreDen),
                               ON |-> Frac(probabilities[2], ScoreDen)],
            recommendation |-> recommendation])

\* api.py lines 161-178, from the model's class and probabilities
Irrigation_format(prediction, probabilities) ==
    LET status == IF prediction = 1 THEN "ON" ELSE "OFF"
        confidence == Frac(probabilities[prediction + 1], ScoreDen)
        recommendation == IF status = "ON" THEN OnText ELSE OffText
    IN  Ok([status |-> status,
            confidence |-> confidence,
            probabilities |-> [OFF |-> Frac(probabilities[1], ScoreDen),
                               ON |-> Frac(probabilities[2], ScoreDen)],
            recommendation |-> recommendation])

\* POST /predict of irrigation api.py.  The framework validates the body
\* against IrrigationInput before the handler runs.
predict_irrigation ==
    /\ service = "irrigation_api" /\ phase = "serving" /\ resp = None
    /\ \E c \in {<<b, [class |-> 0, proba |-> <<ScoreDen, 0>>]>> : b \in IrrigationBodies} \cup
                {<<Body(IrrigationExample), o>> : o \in IrrigationOutputs} :
      LET body == c[1]
          prediction == c[2].class
          probabilities == c[2].proba
      IN
        /\ req' = [op |-> "predict", body |-> body]
        /\ IF ~body.wellformed
           THEN /\ resp' = HTTPException(422, [msg |-> "Input should be a valid dictionary", loc |-> {}])
                /\ calls' = NoCalls
           ELSE IF IrrigationInput_errors(body.values) # {}
           THEN /\ resp' = HTTPException(422, [msg |-> "Input out of range",
                                               loc |-> IrrigationInput_errors(body.values)])
                /\ calls' = NoCalls
           ELSE IF ~model_loaded
           THEN /\ resp' = HTTPException(503, [msg |-> "Model not loaded"])
                /\ calls' = NoCalls
           ELSE /\ calls' = [NoCalls EXCEPT !.model = [vec |-> Irrigation_features(body.values)],
                                            !.scores = [vec |-> probabilities, class |-> prediction]]
                /\ resp' = Irrigation_format(prediction, probabilities)
    /\ ready_at_receipt' = Ready
    /\ UNCHANGED <<inflight, service, env, phase, model, model_loaded, model_error, dataset, load_attempts>>

\* GET /health of irrigation api.py
Irrigation_health_check ==
    /\ service = "irrigation_api" /\ phase = "serving" /\ resp = None
    /\ req' = [op |-> "health"]
    /\ resp' = Ok([status |-> IF model_loaded THEN "healthy" ELSE "unhealthy",
                   model_loaded |-> model_loaded,
                   error |-> IF ~model_loaded THEN model_error ELSE None])
    /\ calls' = NoCalls
    /\ ready_at_receipt' = Ready
    /\ UNCHANGED <<inflight, service, env, phase, model, model_loaded, model_error, dataset, load_attempts>>

(***************************************************************************)
(* Crop service, api.py                                                    *)
(***************************************************************************)
\* The scenario request of the crop domain.
CropReference == [
    district |-> "Khartoum", soil_color |-> "Black",
    nitrogen |-> H(50), phosphorus |-> H(40), potassium |-> H(50),
    ph |-> 650, rainfall |-> H(800), temperature |-> H(25) ]

Districts == {district_to_encoded[k][1] : k \in 1..Len(district_to_encoded)} \cup {"Omdurman", "khartoum"}
SoilColors == {soil_color_to_encoded[k][1] : k \in 1..Len(soil_color_to_encoded)} \cup {"Blue", "black"}

\* The scenario, and the scenario with its district, its soil color, both, or
\* one numeric field changed.
CropInputs ==
    {[CropReference EXCEPT !.district = d, !.soil_color = s] :
        <<d, s>> \in {t \in Districts \X SoilColors :
                        \/ t[1] = CropReference.district
                        \/ t[2] = CropReference.soil_color
                        \/ (~DictHas(district_to_encoded, t[1]) /\ ~DictHas(soil_color_to_encoded, t[2]))}}
    \cup
    UNION {{[CropReference EXCEPT ![CropNumericFields[k]] = v] :
                v \in ProbeValues(OptionsRanges[CropNumericFields[k]].min,
                                  OptionsRanges[CropNumericFields[k]].max)} :
            k \in 1..Len(CropNumericFields)}

CropBodies == {Malformed} \cup {Body(i) : i \in CropInputs}

\* Crop_features with the district and the soil color in each other's place
Crop_features_swapped(encoded_district, encoded_soil_color, request) == <<
    H(0),
    H(encoded_soil_color),
    H(encoded_district),
    request.nitrogen,
    request.phosphorus,
    request.potassium,
    request.ph,
    request.rainfall,
    request.temperature >>

\* api.py lines 145-155: the feature vector handed to the scaler, every
\* element in hundredths.
Crop_features(encoded_district, encoded_soil_color, request) == <<
    H(0),
    H(encoded_district),
    H(encoded_soil_color),
    request.nitrogen,
    request.phosphorus,
    request.potassium,
    request.ph,
    request.rainfall,
    request.temperature >>

\* crop api.py lines 169-172 and 248-251 with every exception turned into a 500
Crop_except_all(e) == HTTPException(500, [e |-> e])

\* crop api.py lines 169-172 and 248-251: an HTTPException raised in the try
\* block is raised again as it is, any other exception becomes a 500 whose
\* detail is the text of the exception.
Crop_except(e) ==
    IF "status" \in DOMAIN e THEN e ELSE HTTPException(500, [e |-> e.raise])

\* api.py lines 160-167
Crop_format(prediction) ==
    LET predicted_class_index == NpArgmax(prediction)
        confidence == NpMax(prediction)
        predicted_crop == DictGet(encoded_to_label, predicted_class_index, "Unknown")
    IN  Ok([recommended_crop |-> predicted_crop,
            confidence |-> Frac(Round4(confidence, ScoreDen), 10000)])

\* POST /predict of crop api.py
Crop_predict ==
    /\ service = "crop_api" /\ phase = "serving" /\ resp = None
    /\ \E c \in CasesOfDataset(CropBodies, Body(CropReference), Outputs(model, encoded_to_label)) :
      LET body == c[1]
          prediction == c[2]
      IN
        /\ req' = [op |-> "predict", body |-> body]
        /\ IF ~body.wellformed
           THEN /\ resp' = HTTPException(422, [msg |-> "Input should be a valid dictionary"])
                /\ calls' = NoCalls
           ELSE
           LET request == body.values
               encoded_district == DictGet(district_to_encoded, request.district, -1)
               encoded_soil_color == DictGet(soil_color_to_encoded, request.soil_color, -1)
               features == Crop_features(encoded_district, encoded_soil_color, request)
           IN  IF encoded_district = -1
               THEN /\ resp' = Crop_except(HTTPException(400, [msg |-> "Invalid district. Valid options: ",
                                                   options |-> DictKeys(district_to_encoded)]))
                    /\ calls' = NoCalls
               ELSE IF encoded_soil_color = -1
               THEN /\ resp' = Crop_except(HTTPException(400, [msg |-> "Invalid soil color. Valid options: ",
                                                   options |-> DictKeys(soil_color_to_encoded)]))
                    /\ calls' = NoCalls
               ELSE /\ calls' = [NoCalls EXCEPT !.scaler = [vec |-> features],
                                                !.model = [scaled |-> features],
                                                !.scores = [vec |-> prediction]]
                    /\ resp' = Crop_format(prediction)
    /\ ready_at_receipt' = Ready
    /\ UNCHANGED <<inflight, service, env, phase, model, model_loaded, model_error, dataset, load_attempts>>

\* GET /health of crop api.py
Crop_health ==
    /\ service = "crop_api" /\ phase = "serving" /\ resp = None
    /\ req' = [op |-> "health"]
    /\ resp' = Ok([status |-> "healthy"])
    /\ calls' = NoCalls
    /\ ready_at_receipt' = Ready
    /\ UNCHANGED <<inflight, service, env, phase, model, model_loaded, model_error, dataset, load_attempts>>

\* pandas Series.unique(): the distinct values in the order of their first
\* occurrence.
Unique(values) ==
    LET firsts == {k \in 1..Len(values) : \A m \in 1..(k - 1) : values[m] # values[k]}
    IN  [i \in 1..Cardinality(firsts) |->
            values[CHOOSE k \in firsts : Cardinality({m \in firsts : m < k}) = i - 1]]

\* GET /options of crop api.py.  The fertilizers are read from the dataset.
get_options ==
    /\ service = "crop_api" /\ phase = "serving" /\ resp = None
    /\ req' = [op |-> "options"]
    /\ resp' = Ok([districts |-> DictKeys(district_to_encoded),
                   soil_colors |-> DictKeys(soil_color_to_encoded),
                   crops |-> DictValues(encoded_to_label),
                   fertilizers |-> Unique([k \in 1..Len(dataset.rows) |-> dataset.rows[k].Fertilizer]),
                   ranges |-> OptionsRanges])
    /\ calls' = [NoCalls EXCEPT !.dataset = TRUE]
    /\ ready_at_receipt' = Ready
    /\ UNCHANGED <<inflight, service, env, phase, model, model_loaded, model_error, dataset, load_attempts>>

\* The fertilizer requests: the scenario for a crop of the dataset, with the
\* crop, the district, the soil color or the nitrogen changed.
FertilizerReference == [
    crop |-> "Rice", district |-> "Khartoum", soil_color |-> "Black",
    nitrogen |-> H(50), phosphorus |-> H(40), potassium |-> H(50),
    ph |-> 650, rainfall |-> H(800), temperature |-> H(25) ]

FertilizerInputs ==
    {[FertilizerReference EXCEPT !.crop = c] : c \in {"Rice", "Wheat", "Barley", "rice"}} \cup
    {[FertilizerReference EXCEPT !.district = d] : d \in {"Omdurman"}} \cup
    {[FertilizerReference EXCEPT !.soil_color = s] : s \in {"Blue"}} \cup
    {[FertilizerReference EXCEPT !.nitrogen = n] : n \in {H(65), H(80), H(100)}} \cup
    {[FertilizerReference EXCEPT !.nitrogen = 3215, !.phosphorus = 8902, !.potassium = 13034]}

FertilizerBodies == {Malformed} \cup {Body(i) : i \in FertilizerInputs}

\* The requests that arrive beside the dataset held: every one beside a
\* dataset up to the length of the reference one, the scenario with the
\* nitrogen of either fertilizer beside a longer one.
FertilizerBodiesOfDataset ==
    IF Len(dataset.rows) > Len(ReferenceTable)
    THEN {Body([FertilizerReference EXCEPT !.nitrogen = n]) : n \in {H(50), H(80)}}
    ELSE FertilizerBodies

\* CropMatches without the filter on the crop
CropMatches_unfiltered(rows, crop) == rows

\* dataset[dataset['Crop_string'] == crop]
CropMatches(rows, crop) == SelectSeq(rows, LAMBDA r : r.Crop_string = crop)

\* The numbers of the request as the float64 the JSON parser made of them.
Float64_request(request) ==
    [nitrogen |-> Float64(request.nitrogen),
     phosphorus |-> Float64(request.phosphorus),
     potassium |-> Float64(request.potassium)]

\* The npk_distance of one row (api.py lines 219-223) from the float64 of
\* the request: three absolute differences of float64 and their sum from
\* left to right, each result rounded to a float64.
NpkDistanceOfFloats(row, floats) ==
    Float64_add(
        Float64_add(Float64_absdiff(Float64(row.Nitrogen), floats.nitrogen),
                    Float64_absdiff(Float64(row.Phosphorus), floats.phosphorus)),
        Float64_absdiff(Float64(row.Potassium), floats.potassium))

\* The npk_distance of one row from the request.
NpkDistance(row, request) == NpkDistanceOfFloats(row, Float64_request(request))

\* The npk_distance column of crop_matches, computed once for all rows.
NpkDistanceColumn(rows, request) ==
    LET floats == Float64_request(request)
    IN  [k \in 1..Len(rows) |-> NpkDistanceOfFloats(rows[k], floats)] \o << >>

\* IdxMin taking the last row of the least distance
IdxMin_last(column) ==
    CHOOSE k \in 1..Len(column) :
        /\ \A m \in 1..Len(column) : ~Float64_less(column[m], column[k])
        /\ \A m \in (k + 1)..Len(column) : column[m] # column[k]

\* Series.idxmin(): the first row of the least distance
IdxMin(column) ==
    CHOOSE k \in 1..Len(column) :
        /\ \A m \in 1..Len(column) : ~Float64_less(column[m], column[k])
        /\ \A m \in 1..(k - 1) : column[m] # column[k]

FertilizerCount(rows, f) == Cardinality({k \in 1..Len(rows) : rows[k].Fertilizer = f})

\* Series.value_counts(): the distinct fertilizers by falling count.  The
\* order among equal counts is the sort's, and is left open.
ValueCountOrders(rows) ==
    LET ferts == {rows[k].Fertilizer : k \in 1..Len(rows)}
        n == Cardinality(ferts)
    IN  {s \in [1..n -> ferts] :
            /\ \A a, b \in 1..n : a # b => s[a] # s[b]
            /\ \A a \in 1..(n - 1) :
                  FertilizerCount(rows, s[a]) >= FertilizerCount(rows, s[a + 1])}

\* Series.head(n)
SeriesHead(s, n) == SubSeq(s, 1, Min(n, Len(s)))

\* Fertilizer_format taking the alternatives from the 2 most frequent
\* fertilizers instead of the 4
Fertilizer_format_head2(request, crop_matches, fertilizer_counts) ==
    LET best_match == crop_matches[IdxMin(NpkDistanceColumn(crop_matches, request))]
        recommended_fertilizer == best_match.Fertilizer
        tutorial_link == best_match.Link
        total_matches == Len(crop_matches)
        top_fertilizers == SeriesHead(fertilizer_counts, 2)
        alternatives == SeriesHead(SelectSeq(top_fertilizers, LAMBDA f : f # recommended_fertilizer), 2)
    IN  Ok([crop |-> request.crop,
            crop_confidence |-> Frac(1, 1),
            recommended_fertilizer |-> recommended_fertilizer,
            fertilizer_confidence |->
                Frac(Round4(FertilizerCount(crop_matches, recommended_fertilizer), total_matches), 10000),
            tutorial_link |-> tutorial_link,
            alternative_fertilizers |-> alternatives])

\* api.py lines 219-246, for a non-empty crop_matches and one order of the
\* value counts
Fertilizer_format(request, crop_matches, fertilizer_counts) ==
    LET best_match == crop_matches[IdxMin(NpkDistanceColumn(crop_matches, request))]
        recommended_fertilizer == best_match.Fertilizer
        tutorial_link == best_match.Link
        total_matches == Len(crop_matches)
        top_fertilizers == SeriesHead(fertilizer_counts, 4)
        alternatives == SeriesHead(SelectSeq(top_fertilizers, LAMBDA f : f # recommended_fertilizer), 2)
    IN  Ok([crop |-> request.crop,
            crop_confidence |-> Frac(1, 1),
            recommended_fertilizer |-> recommended_fertilizer,
            fertilizer_confidence |->
                Frac(Round4(FertilizerCount(crop_matches, recommended_fertilizer), total_matches), 10000),
            tutorial_link |-> tutorial_link,
            alternative_fertilizers |-> alternatives])

\* POST /recommend-fertilizer of crop api.py
recommend_fertilizer ==
    /\ service = "crop_api" /\ phase = "serving" /\ resp = None
    /\ \E body \in FertilizerBodiesOfDataset :
        /\ req' = [op |-> "recommend-fertilizer", body |-> body]
        /\ IF ~body.wellformed
           THEN /\ resp' = HTTPException(422, [msg |-> "Input should be a valid dictionary"])
                /\ calls' = NoCalls
           ELSE
           LET request == body.values
               valid_crops == DictValues(encoded_to_label)
               crop_matches == CropMatches(dataset.rows, request.crop)
           IN  IF ~InList(request.crop, valid_crops)
               THEN /\ resp' = Crop_except(HTTPException(400, [msg |-> "Invalid crop. Valid options: ",
                                                   options |-> valid_crops]))
                    /\ calls' = NoCalls
               ELSE IF Len(crop_matches) = 0
               THEN /\ resp' = Crop_except(HTTPException(404, [msg |-> "No fertilizer data available for ",
                                                   crop |-> request.crop]))
                    /\ calls' = [NoCalls EXCEPT !.dataset = TRUE]
               ELSE \E fertilizer_counts \in ValueCountOrders(crop_matches) :
                    /\ resp' = Fertilizer_format(request, crop_matches, fertilizer_counts)
                    /\ calls' = [NoCalls EXCEPT !.dataset = TRUE]
    /\ ready_at_receipt' = Ready
    /\ UNCHANGED <<inflight, service, env, phase, model, model_loaded, model_error, dataset, load_attempts>>

(***************************************************************************)
(* Disease dashboard, main.py (Streamlit)                                  *)
(***************************************************************************)
\* What a script run leaves on the page: the widgets' output, or the
\* exception that ended the run.
Page(body) == [page |-> body]
StException(e) == [exception |-> e]

\* main.py load_model() under st.cache_resource: the cached model, or the
\* result of a load, or the exception of a failed load (which is not cached).
Main_load_model ==
    IF model # None THEN model
    ELSE LET model_path == IF env.h5 # "missing" THEN "h5" ELSE "keras"
         IN  IF env[model_path] = "ok"
             THEN [outputs |-> env.outputs]
             ELSE [raise |-> LoadError(model_path, env[model_path])]

\* main.py lines 26-28: open, resize, to array, add the batch axis; the mode
\* of the image is kept.  The result is the shape of the array handed to the
\* model and the largest value an element may have.
Main_input_arr(image) ==
    [shape |-> IF image.mode \in {"L", "P"}
               THEN <<1, 128, 128>>
               ELSE <<1, 128, 128, Channels(image.mode)>>,
     maxval |-> 255]

\* The model was trained on batches of 128x128 images of 3 channels, and its
\* predict() raises on an array of another shape.
ModelAccepts(input_arr) == input_arr.shape = <<1, 128, 128, 3>>

\* main.py: the labels of the dashboard; index i of the code is element i + 1 here.
class_name == <<
    (*  0 Apple___Apple_scab *)
    <<"A","p","p","l","e","_","_","_","A","p","p","l","e","_","s","c","a","b">>,
    (*  1 Apple___Black_rot *)
    <<"A","p","p","l","e","_","_","_","B","l","a","c","k","_","r","o","t">>,
    (*  2 Apple___Cedar_apple_rust *)
    <<"A","p","p","l","e","_","_","_","C","e","d","a","r","_","a","p","p","l","e","_","r","u","s","t">>,
    (*  3 Apple___healthy *)
    <<"A","p","p","l","e","_","_","_","h","e","a","l","t","h","y">>,
    (*  4 Blueberry___healthy *)
    <<"B","l","u","e","b","e","r","r","y","_","_","_","h","e","a","l","t","h","y">>,
    (*  5 Cherry_(including_sour)___Powdery_mildew *)
    <<"C","h","e","r","r","y","_","(","i","n","c","l","u","d","i","n","g","_","s","o","u","r",")","_","_","_","P","o","w","d","e","r","y","_","m","i","l","d","e","w">>,
    (*  6 Cherry_(including_sour)___healthy *)
    <<"C","h","e","r","r","y","_","(","i","n","c","l","u","d","i","n","g","_","s","o","u","r",")","_","_","_","h","e","a","l","t","h","y">>,
    (*  7 Corn_(maize)___Cercospora_leaf_spot Gray_leaf_spot *)
    <<"C","o","r","n","_","(","m","a","i","z","e",")","_","_","_","C","e","r","c","o","s","p","o","r","a","_","l","e","a","f","_","s","p","o","t"," ","G","r","a","y","_","l","e","a","f","_","s","p","o","t">>,
    (*  8 Corn_(maize)___Common_rust_ *)
    <<"C","o","r","n","_","(","m","a","i","z","e",")","_","_","_","C","o","m","m","o","n","_","r","u","s","t","_">>,
    (*  9 Corn_(maize)___Northern_Leaf_Blight *)
    <<"C","o","r","n","_","(","m","a","i","z","e",")","_","_","_","N","o","r","t","h","e","r","n","_","L","e","a","f","_","B","l","i","g","h","t">>,
    (* 10 Corn_(maize)___healthy *)
    <<"C","o","r","n","_","(","m","a","i","z","e",")","_","_","_","h","e","a","l","t","h","y">>,
    (* 11 Grape___Black_rot *)
    <<"G","r","a","p","e","_","_","_","B","l","a","c","k","_","r","o","t">>,
    (* 12 Grape___Esca_(Black_Measles) *)
    <<"G","r","a","p","e","_","_","_","E","s","c","a","_","(","B","l","a","c","k","_","M","e","a","s","l","e","s",")">>,
    (* 13 Grape___Leaf_blight_(Isariopsis_Leaf_Spot) *)
    <<"G","r","a","p","e","_","_","_","L","e","a","f","_","b","l","i","g","h","t","_","(","I","s","a","r","i","o","p","s","i","s","_","L","e","a","f","_","S","p","o","t",")">>,
    (* 14 Grape___healthy *)
    <<"G","r","a","p","e","_","_","_","h","e","a","l","t","h","y">>,
    (* 15 Orange___Haunglongbing_(Citrus_greening) *)
    <<"O","r","a","n","g","e","_","_","_","H","a","u","n","g","l","o","n","g","b","i","n","g","_","(","C","i","t","r","u","s","_","g","r","e","e","n","i","n","g",")">>,
    (* 16 Peach___Bacterial_spot *)
    <<"P","e","a","c","h","_","_","_","B","a","c","t","e","r","i","a","l","_","s","p","o","t">>,
    (* 17 Peach___healthy *)
    <<"P","e","a","c","h","_","_","_","h","e","a","l","t","h","y">>,
    (* 18 Pepper,_bell___Bacterial_spot *)
    <<"P","e","p","p","e","r",",","_","b","e","l","l","_","_","_","B","a","c","t","e","r","i","a","l","_","s","p","o","t">>,
    (* 19 Pepper,_bell___healthy *)
    <<"P","e","p","p","e","r",",","_","b","e","l","l","_","_","_","h","e","a","l","t","h","y">>,
    (* 20 Potato___Early_blight *)
    <<"P","o","t","a","t","o","_","_","_","E","a","r","l","y","_","b","l","i","g","h","t">>,
    (* 21 Potato___Late_blight *)
    <<"P","o","t","a","t","o","_","_","_","L","a","t","e","_","b","l","i","g","h","t">>,
    (* 22 Potato___healthy *)
    <<"P","o","t","a","t","o","_","_","_","h","e","a","l","t","h","y">>,
    (* 23 Raspberry___healthy *)
    <<"R","a","s","p","b","e","r","r","y","_","_","_","h","e","a","l","t","h","y">>,
    (* 24 Soybean___healthy *)
    <<"S","o","y","b","e","a","n","_","_","_","h","e","a","l","t","h","y">>,
    (* 25 Squash___Powdery_mildew *)
    <<"S","q","u","a","s","h","_","_","_","P","o","w","d","e","r","y","_","m","i","l","d","e","w">>,
    (* 26 Strawberry___Leaf_scorch *)
    <<"S","t","r","a","w","b","e","r","r","y","_","_","_","L","e","a","f","_","s","c","o","r","c","h">>,
    (* 27 Strawberry___healthy *)
    <<"S","t","r","a","w","b","e","r","r","y","_","_","_","h","e","a","l","t","h","y">>,
    (* 28 Tomato___Bacterial_spot *)
    <<"T","o","m","a","t","o","_","_","_","B","a","c","t","e","r","i","a","l","_","s","p","o","t">>,
    (* 29 Tomato___Early_blight *)
    <<"T","o","m","a","t","o","_","_","_","E","a","r","l","y","_","b","l","i","g","h","t">>,
    (* 30 Tomato___Late_blight *)
    <<"T","o","m","a","t","o","_","_","_","L","a","t","e","_","b","l","i","g","h","t">>,
    (* 31 Tomato___Leaf_Mold *)
    <<"T","o","m","a","t","o","_","_","_","L","e","a","f","_","M","o","l","d">>,
    (* 32 Tomato___Septoria_leaf_spot *)
    <<"T","o","m","a","t","o","_","_","_","S","e","p","t","o","r","i","a","_","l","e","a","f","_","s","p","o","t">>,
    (* 33 Tomato___Spider_mites Two-spotted_spider_mite *)
    <<"T","o","m","a","t","o","_","_","_","S","p","i","d","e","r","_","m","i","t","e","s"," ","T","w","o","-","s","p","o","t","t","e","d","_","s","p","i","d","e","r","_","m","i","t","e">>,
    (* 34 Tomato___Target_Spot *)
    <<"T","o","m","a","t","o","_","_","_","T","a","r","g","e","t","_","S","p","o","t">>,
    (* 35 Tomato___Tomato_Yellow_Leaf_Curl_Virus *)
    <<"T","o","m","a","t","o","_","_","_","T","o","m","a","t","o","_","Y","e","l","l","o","w","_","L","e","a","f","_","C","u","r","l","_","V","i","r","u","s">>,
    (* 36 Tomato___Tomato_mosaic_virus *)
    <<"T","o","m","a","t","o","_","_","_","T","o","m","a","t","o","_","m","o","s","a","i","c","_","v","i","r","u","s">>,
    (* 37 Tomato___healthy *)
    <<"T","o","m","a","t","o","_","_","_","h","e","a","l","t","h","y">>
>>

\* main.py lines 30-31 and 135-141: from the scores to what the page shows
Main_format(prediction) ==
    LET result_index == NpArgmax(prediction)
        confidence == Frac(NpMax(prediction), ScoreDen)
    IN  IF result_index >= Len(class_name)
        THEN StException([e |-> "list index out of range"])
        ELSE
        LET disease == class_name[result_index + 1]
            parts == StrSplit(disease, Separator)
        IN  IF Len(parts) # 2
            THEN StException([e |-> "cannot unpack"])
            ELSE Page([plant |-> StrReplaceChar(parts[1], "_", " "),
                       condition |-> StrReplaceChar(parts[2], "_", " "),
                       confidence_percent |-> FormatPercent(confidence.num, 2)])

\* main.py, a script run on the "Disease Recognition" page with a file
\* uploaded and "Predict" pressed (lines 80-91, model_prediction, 93-141).
Main_predict ==
    /\ service = "disease_main" /\ phase = "serving" /\ resp = None
    /\ model = None => load_attempts < MaxLoads
    /\ \E c \in Cases(Images, ReferenceImage, Outputs(Main_load_model, class_name)) :
      LET test_image == c[1]
          prediction == c[2]
      IN
        /\ req' = [op |-> "Predict", file |-> test_image]
        /\ load_attempts' = IF model = None THEN load_attempts + 1 ELSE load_attempts
        /\ IF "raise" \in DOMAIN Main_load_model
           THEN /\ resp' = StException(Main_load_model.raise)
                /\ calls' = NoCalls
                /\ UNCHANGED model
           ELSE /\ model' = Main_load_model
                /\ IF ~test_image.decodable
                   THEN /\ resp' = StException([e |-> "cannot identify image file"])
                        /\ calls' = NoCalls
                   ELSE IF ~ModelAccepts(Main_input_arr(test_image))
                   THEN /\ resp' = StException([e |-> "incompatible input shape",
                                                shape |-> Main_input_arr(test_image).shape])
                        /\ calls' = [NoCalls EXCEPT !.model = Main_input_arr(test_image)]
                   ELSE /\ resp' = Main_format(prediction)
                        /\ calls' = [NoCalls EXCEPT !.model = Main_input_arr(test_image),
                                                    !.scores = [vec |-> prediction]]
    /\ ready_at_receipt' = Ready
    /\ UNCHANGED <<inflight, service, env, phase, model_loaded, model_error, dataset>>

(***************************************************************************)
(* Crop form, app.py (Streamlit)                                           *)
(***************************************************************************)
\* d[key] of a Python dict that has the key
DictItem(d, key) == d[CHOOSE k \in 1..Len(d) : d[k][1] = key][2]

\* app.py lines 39-73: the form's own copies of the encoding tables and of
\* the class catalog.
App_district_to_encoded == <<
    <<"Khartoum", 2>>,
    <<"ALfashir", 0>>,
    <<"Algazira", 1>>,
    <<"Shendi", 4>>,
    <<"Niyala", 3>> >>

App_soil_color_to_encoded == <<
    <<"Black", 0>>,
    <<"Red", 5>>,
    <<"Medium Brown", 3>>,
    <<"Dark Brown", 1>>,
    <<"Light Brown", 2>>,
    <<"Reddish Brown", 6>> >>

App_encoded_to_label == <<
    <<0, "Cotton">>, <<1, "Ginger">>, <<2, "Gram">>, <<3, "Grapes">>,
    <<4, "Groundnut">>, <<5, "Jowar">>, <<6, "Maize">>, <<7, "Masoor">>,
    <<8, "Moong">>, <<9, "Rice">>, <<10, "Soybean">>, <<11, "Sugarcane">>,
    <<12, "Tur">>, <<13, "Turmeric">>, <<14, "Urad">>, <<15, "Wheat">> >>

\* app.py lines 86-93: the numeric widgets with their bounds and their
\* initial value (hundredths).
CropApp_widgets == <<
    [name |-> "nitrogen",    min_value |-> H(20),  max_value |-> H(150),  value |-> H(50)],
    [name |-> "phosphorus",  min_value |-> H(10),  max_value |-> H(90),   value |-> H(40)],
    [name |-> "potassium",   min_value |-> H(5),   max_value |-> H(150),  value |-> H(50)],
    [name |-> "ph",          min_value |-> 50,     max_value |-> 850,     value |-> 650],
    [name |-> "rainfall",    min_value |-> H(300), max_value |-> H(1700), value |-> H(800)],
    [name |-> "temperature", min_value |-> H(10),  max_value |-> H(40),   value |-> H(25)] >>

\* The form as it first shows: each select box at its first option, each
\* numeric widget at its initial value.
CropApp_initial == [
    district |-> App_district_to_encoded[1][1],
    soil_color |-> App_soil_color_to_encoded[1][1],
    nitrogen |-> CropApp_widgets[1].value, phosphorus |-> CropApp_widgets[2].value,
    potassium |-> CropApp_widgets[3].value, ph |-> CropApp_widgets[4].value,
    rainfall |-> CropApp_widgets[5].value, temperature |-> CropApp_widgets[6].value ]

\* What the form can hold: the initial form with one select box at another
\* option, or one numeric widget at a bound.
CropApp_inputs ==
    {[CropApp_initial EXCEPT !.district = App_district_to_encoded[k][1]] :
        k \in 1..Len(App_district_to_encoded)} \cup
    {[CropApp_initial EXCEPT !.soil_color = App_soil_color_to_encoded[k][1]] :
        k \in 1..Len(App_soil_color_to_encoded)} \cup
    UNION {{[CropApp_initial EXCEPT ![CropApp_widgets[k].name] = v] :
                v \in {CropApp_widgets[k].min_value, CropApp_widgets[k].max_value}} :
            k \in 1..Len(CropApp_widgets)}

\* app.py load_model() under st.cache_resource: the cached model, the result
\* of a load, or the exception of a failed load (which is not cached).
CropApp_load_model ==
    IF model # None THEN model
    ELSE IF env.h5 = "ok" THEN [outputs |-> env.outputs]
    ELSE [raise |-> LoadError("crop_recommendation_model.h5", env.h5)]

\* CropApp_features with the rainfall and the temperature in each other's place
CropApp_features_swapped(w) == <<
    H(0),
    H(DictItem(App_district_to_encoded, w.district)),
    H(DictItem(App_soil_color_to_encoded, w.soil_color)),
    w.nitrogen,
    w.phosphorus,
    w.potassium,
    w.ph,
    w.temperature,
    w.rainfall >>

\* app.py predict_crop, lines 100-116: the feature vector
CropApp_features(w) == <<
    H(0),
    H(DictItem(App_district_to_encoded, w.district)),
    H(DictItem(App_soil_color_to_encoded, w.soil_color)),
    w.nitrogen,
    w.phosphorus,
    w.potassium,
    w.ph,
    w.rainfall,
    w.temperature >>

\* app.py predict_crop, lines 122-126, and what the page shows of it
CropApp_format(prediction) ==
    LET predicted_class_index == NpArgmax(prediction)
        confidence == NpMax(prediction)
        predicted_crop == DictGet(App_encoded_to_label, predicted_class_index, "Unknown")
    IN  Page([recommended_crop |-> predicted_crop,
              confidence_percent |-> FormatPercent(confidence, 1)])

\* app.py, one run of the script: the cached loads of lines 34-36, the form,
\* and predict_crop when "Recommend Crop" was pressed.
CropApp_script ==
    /\ service = "crop_app" /\ phase = "serving" /\ resp = None
    /\ model = None => load_attempts < MaxLoads
    /\ \E c \in {<<FALSE, CropApp_initial, ReferenceScores(Outputs(CropApp_load_model, App_encoded_to_label))>>} \cup
                {<<TRUE, t[1], t[2]>> :
                    t \in Cases(CropApp_inputs, CropApp_initial,
                                Outputs(CropApp_load_model, App_encoded_to_label))} :
      LET pressed == c[1]
          w == c[2]
          prediction == c[3]
      IN
        /\ req' = [op |-> "Recommend Crop", pressed |-> pressed, widgets |-> w]
        /\ load_attempts' = IF model = None THEN load_attempts + 1 ELSE load_attempts
        /\ IF "raise" \in DOMAIN CropApp_load_model
           THEN /\ resp' = StException(CropApp_load_model.raise)
                /\ calls' = NoCalls
                /\ UNCHANGED <<model, dataset>>
           ELSE /\ model' = CropApp_load_model
                /\ IF env.csv.state = "missing"
                   THEN /\ resp' = StException(LoadError("crop_and_fertilizer.csv", "missing"))
                        /\ calls' = NoCalls
                        /\ UNCHANGED dataset
                   ELSE /\ dataset' = [rows |-> env.csv.rows]
                        /\ IF Len(env.csv.rows) = 0
                           THEN /\ resp' = StException([e |-> "Found array with 0 sample(s)"])
                                /\ calls' = NoCalls
                           ELSE IF ~pressed
                           THEN /\ resp' = Page([form |-> w])
                                /\ calls' = NoCalls
                           ELSE /\ calls' = [NoCalls EXCEPT !.scaler = [vec |-> CropApp_features(w)],
                                                            !.model = [scaled |-> CropApp_features(w)],
                                                            !.scores = [vec |-> prediction]]
                                /\ resp' = CropApp_format(prediction)
    /\ ready_at_receipt' = Ready
    /\ UNCHANGED <<inflight, service, env, phase, model_loaded, model_error>>

(***************************************************************************)
(* Irrigation form, app.py (Streamlit)                                     *)
(***************************************************************************)
\* app.py lines 61-83: the widgets in the order of the script, with their
\* bounds and their initial value (hundredths).
IrrigationApp_widgets == <<
    [name |-> "soil_moisture", min_value |-> H(0),   max_value |-> H(100), value |-> H(50)],
    [name |-> "soil_humidity", min_value |-> H(0),   max_value |-> H(100), value |-> H(50)],
    [name |-> "ph",            min_value |-> H(0),   max_value |-> H(14),  value |-> 650],
    [name |-> "nitrogen",      min_value |-> H(0),   max_value |-> H(200), value |-> H(80)],
    [name |-> "phosphorus",    min_value |-> H(0),   max_value |-> H(200), value |-> H(45)],
    [name |-> "potassium",     min_value |-> H(0),   max_value |-> H(200), value |-> H(40)],
    [name |-> "temperature",   min_value |-> H(-10), max_value |-> H(60),  value |-> H(30)],
    [name |-> "air_temp",      min_value |-> H(-10), max_value |-> H(50),  value |-> H(25)],
    [name |-> "air_humidity",  min_value |-> H(0),   max_value |-> H(100), value |-> H(50)],
    [name |-> "wind_speed",    min_value |-> H(0),   max_value |-> H(50),  value |-> H(5)],
    [name |-> "wind_gust",     min_value |-> H(0),   max_value |-> H(100), value |-> H(10)],
    [name |-> "pressure",      min_value |-> H(95),  max_value |-> H(110), value |-> 10130],
    [name |-> "rainfall",      min_value |-> H(0),   max_value |-> H(500), value |-> H(200)],
    [name |-> "time_hour",     min_value |-> H(0),   max_value |-> H(23),  value |-> H(12)] >>

\* The form as it first shows.
IrrigationApp_initial ==
    [n \in {IrrigationApp_widgets[k].name : k \in 1..Len(IrrigationApp_widgets)} |->
        (CHOOSE x \in {IrrigationApp_widgets[k] : k \in 1..Len(IrrigationApp_widgets)} :
            x.name = n).value]

\* What the form can hold: the initial form with one widget at a bound.
IrrigationApp_inputs ==
    {IrrigationApp_initial} \cup
    UNION {{[IrrigationApp_initial EXCEPT ![IrrigationApp_widgets[k].name] = v] :
                v \in {IrrigationApp_widgets[k].min_value, IrrigationApp_widgets[k].max_value}} :
            k \in 1..Len(IrrigationApp_widgets)}

\* app.py load_model() under st.cache_resource, lines 19-26: the cached
\* model, the result of a load, or the exception of a failed load.
IrrigationApp_load_model ==
    IF model # None THEN model
    ELSE IF env.joblib # "ok"
    THEN [raise |-> LoadError("irrigation_model.joblib", env.joblib)]
    ELSE IF env.feature_names # "ok"
    THEN [raise |-> LoadError("feature_names.json", env.feature_names)]
    ELSE IF env.model_info # "ok"
    THEN [raise |-> LoadError("model_info.json", env.model_info)]
    ELSE [outputs |-> 2]

\* app.py lines 93-108: the feature vector
IrrigationApp_features(w) == <<
    w.soil_moisture,
    w.temperature,
    w.soil_humidity,
    w.time_hour,
    w.air_temp,
    w.wind_speed,
    w.air_humidity,
    w.wind_gust,
    w.pressure,
    w.ph,
    w.rainfall,
    w.nitrogen,
    w.phosphorus,
    w.potassium >>

AppOnText == "Your crops need water! Turn on the irrigation system."
AppOffText == "No irrigation needed at this time."

\* app.py lines 114-135: what the page shows of the model's class and
\* probabilities (the confidence and the probabilities as percentages)
IrrigationApp_format(prediction, prediction_proba) ==
    LET status == IF prediction = 1 THEN "ON" ELSE "OFF"
    IN  Page([status |-> status,
              text |-> IF status = "ON" THEN AppOnText ELSE AppOffText,
              confidence_percent |-> FormatPercent(prediction_proba[prediction + 1], 1),
              probabilities |-> [OFF |-> FormatPercent(prediction_proba[1], 1),
                                 ON |-> FormatPercent(prediction_proba[2], 1)]])

\* app.py, one run of the script: the cached load in its try / except, the
\* stop when it failed, the form, and the prediction when "Predict
\* Irrigation Status" was pressed.
IrrigationApp_script ==
    /\ service = "irrigation_app" /\ phase = "serving" /\ resp = None
    /\ model = None => load_attempts < MaxLoads
    /\ \E c \in {<<FALSE, IrrigationApp_initial, [class |-> 0, proba |-> <<ScoreDen, 0>>]>>} \cup
                {<<TRUE, w, [class |-> 0, proba |-> <<ScoreDen, 0>>]>> : w \in IrrigationApp_inputs} \cup
                {<<TRUE, IrrigationApp_initial, o>> : o \in IrrigationOutputs} :
      LET pressed == c[1]
          w == c[2]
          prediction == c[3].class
          prediction_proba == c[3].proba
      IN
        /\ req' = [op |-> "Predict Irrigation Status", pressed |-> pressed, widgets |-> w]
        /\ load_attempts' = IF model = None THEN load_attempts + 1 ELSE load_attempts
        /\ IF "raise" \in DOMAIN IrrigationApp_load_model
           THEN /\ model_loaded' = FALSE
                /\ model_error' = IrrigationApp_load_model.raise
                /\ resp' = Page([error |-> [msg |-> "Failed to load model: ",
                                            e |-> IrrigationApp_load_model.raise]])
                /\ calls' = NoCalls
                /\ UNCHANGED model
           ELSE /\ model' = IrrigationApp_load_model
                /\ model_loaded' = TRUE
                /\ UNCHANGED model_error
                /\ IF ~pressed
                   THEN /\ resp' = Page([form |-> w])
                        /\ calls' = NoCalls
                   ELSE /\ calls' = [NoCalls EXCEPT
                                        !.model = [vec |-> IrrigationApp_features(w)],
                                        !.scores = [vec |-> prediction_proba, class |-> prediction]]
                        /\ resp' = IrrigationApp_format(prediction, prediction_proba)
    /\ ready_at_receipt' = Ready
    /\ UNCHANGED <<inflight, service, env, phase, dataset>>

(***************************************************************************)
(* The response leaves the process, and the next request can be taken.     *)
(* Nothing of a request outlives it but the process-wide state.            *)
(***************************************************************************)
Reply ==
    /\ resp # None
    /\ req' = None
    /\ resp' = None
    /\ calls' = NoCalls
    /\ ready_at_receipt' = FALSE
    /\ UNCHANGED <<inflight, service, env, phase, model, model_loaded, model_error, dataset, load_attempts>>

Next ==
    \/ Startup
    \/ predict_disease
    \/ predict_disease_resume
    \/ Disease_health_check
    \/ get_classes
    \/ Flask_predict
    \/ Flask_predict_resume
    \/ predict_irrigation
    \/ Irrigation_health_check
    \/ Crop_predict
    \/ Crop_health
    \/ get_options
    \/ recommend_fertilizer
    \/ Main_predict
    \/ CropApp_script
    \/ IrrigationApp_script
    \/ Reply

Spec == Init /\ [][Next]_vars

(***************************************************************************)
(* Properties                                                              *)
(***************************************************************************)
\* A handler has answered the request req with resp.
Answered(op) == resp # None /\ req.op = op

\* The request is one the service is meant to serve: the upload is an image
\* in the expected part, the body has every field with a value of its type.
WellFormedRequest ==
    CASE service = "disease_api" ->
           /\ req.file.field = "file"
           /\ req.file.content_type # None /\ req.file.content_type.major = "image"
           /\ req.file.image.decodable
      [] service = "disease_flask" ->
           /\ req.file.field # "" /\ req.file.filename # ""
           /\ req.file.image.decodable
      [] OTHER -> req.body.wellformed

\* C1 (as claimed, for a request the service is meant to serve): an inference
\* request received while the model is not ready is answered 503 (service
\* unavailable) and the model is not invoked.  The Flask disease service has no
\* readiness check: its handler loads the model itself and answers 200 or 500.
C1_NotReadyGives503 ==
    (Answered("predict") /\ WellFormedRequest /\ ~ready_at_receipt)
        => (resp.status = 503 /\ calls.model = None)

\* The artifact of the service cannot be loaded: it is missing or cannot be
\* deserialized (for the disease service, both candidate files).
ArtifactUnusable ==
    CASE service = "disease_api" -> env.h5 # "ok" /\ env.keras # "ok"
      [] service = "irrigation_api" -> env.joblib # "ok"
      [] service = "crop_api" -> env.h5 # "ok"
      [] OTHER -> FALSE

\* C2 (as claimed): in the REST service of each of the three domains a failed
\* load of the model artifact does not end the process: start-up completes
\* with the service not ready and the error captured, and the health query
\* can be answered.  The crop service loads outside any try and ends instead.
C2_LoadFailureIsNotFatal ==
    (service \in {"disease_api", "irrigation_api", "crop_api"}
        /\ phase # "init" /\ ArtifactUnusable)
        => (/\ phase = "serving"
            /\ ~Ready
            /\ model_error \notin {None, Unset})

KnownDistricts == {"Khartoum", "ALfashir", "Algazira", "Shendi", "Niyala"}
KnownSoilColors == {"Black", "Red", "Medium Brown", "Dark Brown", "Light Brown", "Reddish Brown"}
SetOf(s) == {s[k] : k \in 1..Len(s)}

\* C3 (as claimed): POST /predict and POST /recommend-fertilizer of the crop
\* service answer a district outside the 5 known names, or a soil color
\* outside the 6, with 400 and the list of valid values, and reach neither
\* the scaler, the model nor the dataset.  POST /recommend-fertilizer never
\* looks at either field.
C3_UnknownEnumRejected ==
    (service = "crop_api" /\ resp # None
        /\ req.op \in {"predict", "recommend-fertilizer"} /\ req.body.wellformed
        /\ (req.body.values.district \notin KnownDistricts
            \/ req.body.values.soil_color \notin KnownSoilColors))
        => (/\ resp.status = 400
            /\ "options" \in DOMAIN resp.detail
            /\ SetOf(resp.detail.options) \in {KnownDistricts, KnownSoilColors}
            /\ calls = NoCalls)

\* Some numeric field of the crop request lies outside the range GET /options
\* reports for it (hundredths).
CropOutOfRange(v) ==
    \/ v.nitrogen < H(20) \/ v.nitrogen > H(150)
    \/ v.phosphorus < H(10) \/ v.phosphorus > H(90)
    \/ v.potassium < H(5) \/ v.potassium > H(150)
    \/ v.ph < 50 \/ v.ph > 850
    \/ v.rainfall < H(300) \/ v.rainfall > H(1700)
    \/ v.temperature < H(10) \/ v.temperature > H(40)

\* Some field of the irrigation request lies outside its ge / le range.
IrrigationOutOfRange(v) ==
    \E k \in 1..Len(IrrigationInput) :
        \/ v[IrrigationInput[k].name] < IrrigationInput[k].ge
        \/ v[IrrigationInput[k].name] > IrrigationInput[k].le

\* C4 (as claimed): the crop and the irrigation service reject as invalid
\* input a request with a numeric field outside its declared range, and do
\* not invoke the model on it.  The crop request model declares no range.
C4_OutOfRangeRejected ==
    (service \in {"crop_api", "irrigation_api"} /\ Answered("predict") /\ req.body.wellformed
        /\ IF service = "crop_api"
           THEN CropOutOfRange(req.body.values)
           ELSE IrrigationOutOfRange(req.body.values))
        => (resp.status \in {400, 422} /\ calls.model = None)

\* Every field of the irrigation request is within its range, and whole
\* where the field is an int.
IrrigationAllValid(v) ==
    \A k \in 1..Len(IrrigationInput) :
        /\ v[IrrigationInput[k].name] >= IrrigationInput[k].ge
        /\ v[IrrigationInput[k].name] <= IrrigationInput[k].le
        /\ (IrrigationInput[k].type = "int" => v[IrrigationInput[k].name] % 100 = 0)

\* C5: irrigation validation is inclusive at both ends of every range.  A
\* request with a field below its lower or above its upper bound is rejected
\* as invalid input (422) naming that field; a request whose fields all lie
\* within their bounds, the bounds included, is not rejected; soil_moisture
\* 0 and 100 are accepted, -0.01 and 100.01 rejected.
C5_InclusiveBounds ==
    (service = "irrigation_api" /\ Answered("predict") /\ req.body.wellformed)
        => LET v == req.body.values
           IN  /\ \A k \in 1..Len(IrrigationInput) :
                    LET f == IrrigationInput[k]
                    IN  (v[f.name] < f.ge \/ v[f.name] > f.le)
                            => (resp.status = 422 /\ f.name \in resp.detail.loc)
               /\ IrrigationAllValid(v) => resp.status \in {200, 503}
               /\ (v.soil_moisture \in {-1, 10001}) => resp.status = 422
               /\ (v.soil_moisture \in {0, 10000} /\ v = [IrrigationExample EXCEPT !.soil_moisture = v.soil_moisture])
                    => resp.status \in {200, 503}

\* C5 witness: soil_moisture exactly 100 was accepted and predicted on.
C5_Witness ==
    /\ service = "irrigation_api" /\ Answered("predict") /\ req.body.wellformed
    /\ req.body.values.soil_moisture = 10000
    /\ resp.status = 200

CatalogCrops == {"Cotton", "Ginger", "Gram", "Grapes", "Groundnut", "Jowar", "Maize", "Masoor",
                 "Moong", "Rice", "Soybean", "Sugarcane", "Tur", "Turmeric", "Urad", "Wheat"}

\* C6: POST /recommend-fertilizer answers 400 for a crop outside the 16-name
\* catalog and 404 for a catalog crop without a dataset row, and returns a
\* fertilizer only for a catalog crop, and then the fertilizer of a dataset
\* row of that crop.
C6_NoFertilizerWithoutData ==
    (service = "crop_api" /\ Answered("recommend-fertilizer") /\ req.body.wellformed)
        => LET crop == req.body.values.crop
               has_rows == \E k \in 1..Len(dataset.rows) : dataset.rows[k].Crop_string = crop
           IN  /\ crop \notin CatalogCrops => resp.status = 400
               /\ (crop \in CatalogCrops /\ ~has_rows) => resp.status = 404
               /\ resp.status # 200 => "body" \notin DOMAIN resp
               /\ resp.status = 200 =>
                    /\ crop \in CatalogCrops
                    /\ \E k \in 1..Len(dataset.rows) :
                          /\ dataset.rows[k].Crop_string = crop
                          /\ dataset.rows[k].Fertilizer = resp.body.recommended_fertilizer

\* C6 witness: a catalog crop without a row of its own, in a dataset that has
\* rows, was answered 404.
C6_Witness ==
    /\ service = "crop_api" /\ Answered("recommend-fertilizer") /\ req.body.wellformed
    /\ req.body.values.crop = "Wheat"
    /\ Len(dataset.rows) > 0
    /\ resp.status = 404

DistrictCode(d) ==
    CASE d = "Khartoum" -> 2 [] d = "ALfashir" -> 0 [] d = "Algazira" -> 1
      [] d = "Shendi" -> 4 [] d = "Niyala" -> 3
SoilCode(s) ==
    CASE s = "Black" -> 0 [] s = "Red" -> 5 [] s = "Medium Brown" -> 3
      [] s = "Dark Brown" -> 1 [] s = "Light Brown" -> 2 [] s = "Reddish Brown" -> 6

\* C7: for every valid crop input the scaler receives the 9 elements
\* [0, code(district), code(soil_color), nitrogen, phosphorus, potassium, ph,
\* rainfall, temperature] in that order (hundredths); for the scenario it
\* receives [0, 2, 0, 50, 40, 50, 6.5, 800, 25].
C7_EncodedVector ==
    (service = "crop_api" /\ Answered("predict") /\ req.body.wellformed
        /\ req.body.values.district \in KnownDistricts
        /\ req.body.values.soil_color \in KnownSoilColors)
        => LET v == req.body.values
           IN  /\ calls.scaler # None
               /\ calls.scaler.vec =
                    <<0, H(DistrictCode(v.district)), H(SoilCode(v.soil_color)),
                      v.nitrogen, v.phosphorus, v.potassium, v.ph, v.rainfall, v.temperature>>
               /\ Len(calls.scaler.vec) = 9
               /\ v = CropReference =>
                    calls.scaler.vec = <<0, 200, 0, 5000, 4000, 5000, 650, 80000, 2500>>

\* C7 witness: the scenario request was encoded and predicted on.
C7_Witness ==
    /\ service = "crop_api" /\ Answered("predict") /\ req.body.wellformed
    /\ req.body.values = CropReference
    /\ calls.scaler # None
    /\ resp.status = 200

\* i is the lowest place (from 1) at which v attains its maximum.
IsFirstMax(v, i) ==
    /\ \A m \in 1..Len(v) : v[m] <= v[i]
    /\ \A m \in 1..(i - 1) : v[m] < v[i]

\* The response names the class at place i (from 1) of the service's catalog.
\* A crop response names no class beyond the catalog's 16.
NamesClass(i) ==
    CASE service = "disease_api" -> resp.body.raw_class = CLASS_NAMES[i]
      [] service = "disease_flask" -> resp.body.class = CLASS_NAMES[i]
      [] service = "crop_api" ->
           i <= Len(encoded_to_label) => resp.body.recommended_crop = encoded_to_label[i][2]

\* C8 (as claimed): in the disease and crop services the predicted class is
\* the lowest index at which the scores attain their maximum, and the
\* reported confidence is the score at that index.  The crop service reports
\* the score rounded to 4 decimal places.
C8_ConfidenceIsTheScore ==
    (service \in {"disease_api", "disease_flask", "crop_api"}
        /\ Answered("predict") /\ resp.status = 200)
        => LET v == calls.scores.vec
               i == CHOOSE i \in 1..Len(v) : IsFirstMax(v, i)
           IN  /\ NamesClass(i)
               /\ FracEq(resp.body.confidence, Frac(v[i], ScoreDen))

\* C8 (amended): the predicted class is the lowest index at which the scores
\* attain their maximum; the disease services report the score at that index
\* as the confidence, the crop service reports it rounded to 4 decimal
\* places (a multiple of 0.0001 at most 0.00005 away from it).
C8_FirstMaximum ==
    (service \in {"disease_api", "disease_flask", "crop_api"}
        /\ Answered("predict") /\ resp.status = 200)
        => LET v == calls.scores.vec
               i == CHOOSE i \in 1..Len(v) : IsFirstMax(v, i)
               c == resp.body.confidence
           IN  /\ NamesClass(i)
               /\ IF service = "crop_api"
                  THEN /\ c.den = 10000
                       /\ 2 * Abs(c.num * ScoreDen - v[i] * 10000) <= ScoreDen
                  ELSE FracEq(c, Frac(v[i], ScoreDen))

\* C8 witness: the maximum occurred at two places and the crop service named
\* the class of the lower one.
C8_Witness ==
    /\ service = "crop_api" /\ Answered("predict") /\ resp.status = 200
    /\ \E i, j \in 1..Len(calls.scores.vec) :
          /\ i < j
          /\ IsFirstMax(calls.scores.vec, i)
          /\ calls.scores.vec[j] = calls.scores.vec[i]
          /\ resp.body.recommended_crop = encoded_to_label[i][2]

\* C9 (as claimed): a successful prediction returns a label of the catalog:
\* the disease response's raw_class is one of the 38 labels, the crop
\* response's recommended_crop one of the 16 crop names.  For a class index
\* beyond the catalog the crop service returns "Unknown".
C9_LabelInCatalog ==
    (Answered("predict") /\ resp.status = 200)
        => /\ service = "disease_api" =>
                \E i \in 1..Len(CLASS_NAMES) : resp.body.raw_class = CLASS_NAMES[i]
           /\ service = "crop_api" => resp.body.recommended_crop \in CatalogCrops

\* The place of the first "___" of a label.
SeparatorAt(label) ==
    CHOOSE k \in 1..(Len(label) - 2) :
        /\ SubSeq(label, k, k + 2) = <<"_", "_", "_">>
        /\ \A m \in 1..(k - 1) : SubSeq(label, m, m + 2) # <<"_", "_", "_">>
BeforeSeparator(label) == SubSeq(label, 1, SeparatorAt(label) - 1)
AfterSeparator(label) == SubSeq(label, SeparatorAt(label) + 3, Len(label))
HasHealthy(label) ==
    \E k \in 1..(Len(label) - 6) : SubSeq(label, k, k + 6) = <<"h", "e", "a", "l", "t", "h", "y">>
Spaced(s) == [k \in 1..Len(s) |-> IF s[k] = "_" THEN " " ELSE s[k]]

\* C10 (as claimed): the disease response has is_healthy exactly when the
\* label contains "healthy", disease "None" exactly when is_healthy and
\* otherwise the condition part of the label, plant the part before the
\* separator, and the healthy template exactly when is_healthy.  The handler
\* replaces the underscores of both parts by spaces.
C10_PartsOfTheLabel ==
    (service = "disease_api" /\ Answered("predict") /\ resp.status = 200)
        => LET b == resp.body
           IN  /\ b.is_healthy = HasHealthy(b.raw_class)
               /\ (b.disease = <<"N", "o", "n", "e">>) = b.is_healthy
               /\ ~b.is_healthy => b.disease = AfterSeparator(b.raw_class)
               /\ b.plant = BeforeSeparator(b.raw_class)
               /\ b.recommendation.template =
                    IF b.is_healthy THEN HealthyTemplate ELSE DiseaseTemplate

\* C10 (amended): is_healthy holds exactly when the label contains
\* "healthy"; disease is "None" exactly when is_healthy and otherwise the
\* condition part of the label with its underscores replaced by spaces; plant
\* is the part before the separator with its underscores replaced by spaces;
\* the recommendation is the healthy template about the plant when
\* is_healthy and the disease template about the condition otherwise.
C10_FormattedLabel ==
    (service = "disease_api" /\ Answered("predict") /\ resp.status = 200)
        => LET b == resp.body
           IN  /\ b.is_healthy = HasHealthy(b.raw_class)
               /\ (b.disease = <<"N", "o", "n", "e">>) = b.is_healthy
               /\ ~b.is_healthy => b.disease = Spaced(AfterSeparator(b.raw_class))
               /\ b.plant = Spaced(BeforeSeparator(b.raw_class))
               /\ b.recommendation =
                    IF b.is_healthy
                    THEN [template |-> HealthyTemplate, arg |-> Spaced(BeforeSeparator(b.raw_class))]
                    ELSE [template |-> DiseaseTemplate, arg |-> Spaced(AfterSeparator(b.raw_class))]

\* C10 witness: the label Pepper,_bell___healthy was formatted as the healthy
\* plant "Pepper, bell".
C10_Witness ==
    /\ service = "disease_api" /\ Answered("predict") /\ resp.status = 200
    /\ resp.body.raw_class = CLASS_NAMES[20]
    /\ resp.body.is_healthy
    /\ resp.body.plant = <<"P", "e", "p", "p", "e", "r", ",", " ", "b", "e", "l", "l">>

\* C11: every successful irrigation prediction has status "ON" when the
\* model's class is 1 and "OFF" when it is 0, carries both the OFF and the ON
\* probability, reports as confidence the probability of the class reported
\* as status, and gives the ON recommendation exactly when status is "ON".
C11_IrrigationResponse ==
    (service = "irrigation_api" /\ Answered("predict") /\ resp.status = 200)
        => LET class == calls.scores.class
               p == calls.scores.vec
               b == resp.body
           IN  /\ class = 1 => b.status = "ON"
               /\ class = 0 => b.status = "OFF"
               /\ b.probabilities = [OFF |-> Frac(p[1], ScoreDen), ON |-> Frac(p[2], ScoreDen)]
               /\ b.confidence = IF b.status = "ON" THEN b.probabilities.ON ELSE b.probabilities.OFF
               /\ (b.recommendation = OnText) = (b.status = "ON")
               /\ (b.recommendation = OffText) = (b.status = "OFF")

\* C11 witness: the model's class was 1 with an ON probability of 3/4, and
\* the response said "ON".
C11_Witness ==
    /\ service = "irrigation_api" /\ Answered("predict") /\ resp.status = 200
    /\ calls.scores.class = 1
    /\ calls.scores.vec = <<16, 48>>
    /\ resp.body.status = "ON"

\* The places of the dataset rows whose crop is the requested one, and the
\* distance of the row at place k from the request.
MatchingRows == {k \in 1..Len(dataset.rows) : dataset.rows[k].Crop_string = req.body.values.crop}
RowDistance(k) ==
    Abs(dataset.rows[k].Nitrogen - req.body.values.nitrogen)
    + Abs(dataset.rows[k].Phosphorus - req.body.values.phosphorus)
    + Abs(dataset.rows[k].Potassium - req.body.values.potassium)

\* The first row, in dataset order, that is nearest to the request among the
\* rows of the requested crop.
IsNearestRow(k) ==
    /\ k \in MatchingRows
    /\ \A j \in MatchingRows : RowDistance(k) <= RowDistance(j)
    /\ \A j \in MatchingRows : j < k => RowDistance(j) > RowDistance(k)

\* C12 (as claimed): for a crop with at least one matching row,
\* POST /recommend-fertilizer returns the fertilizer and the link of a row
\* that minimises |N_row - N| + |P_row - P| + |K_row - K| over the rows of
\* the requested crop, and of the first such row in dataset order when
\* several tie.  Rows that tie can have different float64 sums, and then the
\* handler takes the row of the least sum, which can be a later one.
C12_NearestRow ==
    (service = "crop_api" /\ Answered("recommend-fertilizer") /\ req.body.wellformed
        /\ req.body.values.crop \in CatalogCrops /\ MatchingRows # {})
        => /\ resp.status = 200
           /\ \E k \in MatchingRows :
                /\ IsNearestRow(k)
                /\ resp.body.recommended_fertilizer = dataset.rows[k].Fertilizer
                /\ resp.body.tutorial_link = dataset.rows[k].Link

\* The distances of the dataset's rows from the request as the handler
\* computes them, in float64, and the one of the row at place k.
ComputedDistances == NpkDistanceColumn(dataset.rows, req.body.values)
ComputedDistance(k) == ComputedDistances[k]

\* C12 (amended): for a crop with at least one matching row,
\* POST /recommend-fertilizer returns the fertilizer and the link of a row
\* that minimises |N_row - N| + |P_row - P| + |K_row - K| over the rows of
\* the requested crop; when several rows tie, the row used is the first, in
\* dataset order, of the rows whose distance computed in float64 is least.
C12_NearestComputedRow ==
    (service = "crop_api" /\ Answered("recommend-fertilizer") /\ req.body.wellformed
        /\ req.body.values.crop \in CatalogCrops /\ MatchingRows # {})
        => /\ resp.status = 200
           /\ \E k \in MatchingRows :
                /\ \A j \in MatchingRows : RowDistance(k) <= RowDistance(j)
                /\ LET computed == ComputedDistances
                   IN  /\ \A j \in MatchingRows : ~Float64_less(computed[j], computed[k])
                       /\ \A j \in MatchingRows : j < k => computed[j] # computed[k]
                /\ resp.body.recommended_fertilizer = dataset.rows[k].Fertilizer
                /\ resp.body.tutorial_link = dataset.rows[k].Link

\* C12 witness: the two rows of the dataset, of the crop and with different
\* fertilizers, were equally far from the request, the float64 sum of the
\* later row was the smaller one, and the response named the fertilizer of
\* the later row.
C12_Witness ==
    /\ service = "crop_api" /\ Answered("recommend-fertilizer") /\ resp.status = 200
    /\ Len(dataset.rows) = 2
    /\ \E k, j \in MatchingRows :
          /\ k < j
          /\ \A i \in MatchingRows : RowDistance(k) <= RowDistance(i)
          /\ RowDistance(j) = RowDistance(k)
          /\ Float64_less(ComputedDistance(j), ComputedDistance(k))
          /\ dataset.rows[j].Fertilizer # dataset.rows[k].Fertilizer
          /\ resp.body.recommended_fertilizer = dataset.rows[j].Fertilizer
          /\ resp.body.tutorial_link = dataset.rows[j].Link

\* In a short dataset two rows of the crop with different fertilizers were
\* equally far from the request with equal float64 sums, a row of another
\* crop was nearer than both, and the response named the fertilizer of the
\* earlier row.
EarlierOfEqualSums ==
    /\ service = "crop_api" /\ Answered("recommend-fertilizer") /\ resp.status = 200
    /\ Len(dataset.rows) <= Len(ReferenceTable)
    /\ \E k, j \in MatchingRows :
          /\ IsNearestRow(k) /\ k < j
          /\ ComputedDistance(j) = ComputedDistance(k)
          /\ dataset.rows[j].Fertilizer # dataset.rows[k].Fertilizer
          /\ resp.body.recommended_fertilizer = dataset.rows[k].Fertilizer
    /\ \E i \in 1..Len(dataset.rows) :
          i \notin MatchingRows /\ \A k \in MatchingRows : RowDistance(i) < RowDistance(k)

\* The number of rows of the requested crop that carry fertilizer f, and the
\* fertilizers of those rows other than the recommended one.
MatchingCount(f) == Cardinality({k \in MatchingRows : dataset.rows[k].Fertilizer = f})
OtherFertilizers ==
    {dataset.rows[k].Fertilizer : k \in MatchingRows} \ {resp.body.recommended_fertilizer}

\* C13: the alternative_fertilizers of POST /recommend-fertilizer are at
\* most 2, never the recommended fertilizer, without duplicates, the most
\* frequent fertilizers of the crop's rows other than the recommended one in
\* descending order of frequency, and fewer than 2 only when fewer than 2
\* other fertilizers occur among those rows.
C13_Alternatives ==
    (service = "crop_api" /\ Answered("recommend-fertilizer") /\ resp.status = 200)
        => LET alt == resp.body.alternative_fertilizers
               listed == {alt[i] : i \in 1..Len(alt)}
           IN  /\ Len(alt) <= 2
               /\ listed \subseteq OtherFertilizers
               /\ Cardinality(listed) = Len(alt)
               /\ \A f \in listed : \A g \in OtherFertilizers \ listed :
                     MatchingCount(f) >= MatchingCount(g)
               /\ \A i \in 1..(Len(alt) - 1) : MatchingCount(alt[i]) >= MatchingCount(alt[i + 1])
               /\ Len(alt) < 2 => Cardinality(OtherFertilizers) = Len(alt)

\* C13 witness: four other fertilizers occurred, each at least as often as
\* the recommended one, and the two most frequent of them were returned, the
\* more frequent first.
C13_Witness ==
    /\ service = "crop_api" /\ Answered("recommend-fertilizer") /\ resp.status = 200
    /\ Cardinality(OtherFertilizers) = 4
    /\ \A g \in OtherFertilizers : MatchingCount(g) >= MatchingCount(resp.body.recommended_fertilizer)
    /\ Len(resp.body.alternative_fertilizers) = 2
    /\ MatchingCount(resp.body.alternative_fertilizers[1]) > MatchingCount(resp.body.alternative_fertilizers[2])

\* C14 (as claimed): the fertilizer_confidence of POST /recommend-fertilizer
\* equals the number of matching rows with the recommended fertilizer divided
\* by the number of rows matching the crop, so it is strictly greater than 0,
\* at most 1, and 1 exactly when every matching row has the recommended
\* fertilizer.  The handler returns the share rounded to 4 decimal places:
\* 0.3333 for 1 row of 3, 0 for 1 row of 20001 and 1 for 20000 rows of 20001.
C14_ConfidenceIsTheShare ==
    (service = "crop_api" /\ Answered("recommend-fertilizer") /\ resp.status = 200)
        => LET c == resp.body.fertilizer_confidence
               count == MatchingCount(resp.body.recommended_fertilizer)
               total == Cardinality(MatchingRows)
           IN  /\ FracEq(c, Frac(count, total))
               /\ c.num > 0 /\ c.num <= c.den
               /\ (c.num = c.den) = (count = total)

\* C14 (amended): the fertilizer_confidence equals the number of matching
\* rows with the recommended fertilizer divided by the number of rows
\* matching the crop, rounded to 4 decimal places (a multiple of 0.0001 at
\* most 0.00005 away from the share); it is at least 0 and at most 1, and it
\* is 1 when every matching row has the recommended fertilizer.
C14_RoundedShare ==
    (service = "crop_api" /\ Answered("recommend-fertilizer") /\ resp.status = 200)
        => LET c == resp.body.fertilizer_confidence
               count == MatchingCount(resp.body.recommended_fertilizer)
               total == Cardinality(MatchingRows)
           IN  /\ c.den = 10000
               /\ 2 * Abs(c.num * total - count * 10000) <= total
               /\ c.num >= 0 /\ c.num <= c.den
               /\ (count = total) => (c.num = c.den)

\* C14 witness: the recommended fertilizer had 1 of the crop's 20001 rows
\* and the response reported a fertilizer_confidence of 0, the share rounded
\* to 4 decimal places: the number returned is not strictly greater than 0.
C14_Witness ==
    /\ service = "crop_api" /\ Answered("recommend-fertilizer") /\ resp.status = 200
    /\ MatchingCount(resp.body.recommended_fertilizer) = 1
    /\ Cardinality(MatchingRows) = VastRows
    /\ resp.body.fertilizer_confidence = Frac(0, 10000)

\* The recommended fertilizer had all but one of the crop's 20001 rows and
\* the response reported a fertilizer_confidence of 1: the number returned
\* is 1 although a matching row has another fertilizer.
ShareRoundedToOne ==
    /\ service = "crop_api" /\ Answered("recommend-fertilizer") /\ resp.status = 200
    /\ MatchingCount(resp.body.recommended_fertilizer) = VastRows - 1
    /\ Cardinality(MatchingRows) = VastRows
    /\ resp.body.fertilizer_confidence = Frac(10000, 10000)

\* The recommended fertilizer had 1 of the crop's 6 rows and the response
\* reported 0.1667.
ShareOfSixRows ==
    /\ service = "crop_api" /\ Answered("recommend-fertilizer") /\ resp.status = 200
    /\ MatchingCount(resp.body.recommended_fertilizer) = 1
    /\ Cardinality(MatchingRows) = 6
    /\ resp.body.fertilizer_confidence = Frac(1667, 10000)

\* The files the model loader of the service reads, in the order it reads
\* them, with what it finds.
LoaderFiles ==
    CASE service = "disease_api" ->
           IF env.h5 # "missing" THEN << <<"h5", env.h5>> >> ELSE << <<"keras", env.keras>> >>
      [] service = "irrigation_api" ->
           << <<"irrigation_model.joblib", env.joblib>>,
              <<"feature_names.json", env.feature_names>>,
              <<"model_info.json", env.model_info>> >>
      [] service = "crop_api" ->
           << <<"crop_recommendation_model.h5", env.h5>> >>
LoadSucceeded == \A k \in 1..Len(LoaderFiles) : LoaderFiles[k][2] = "ok"
FirstFailure == CHOOSE k \in 1..Len(LoaderFiles) :
                    LoaderFiles[k][2] # "ok" /\ \A j \in 1..(k - 1) : LoaderFiles[j][2] = "ok"

\* C15 (as claimed): in each of the three domains the health query reports
\* healthy exactly when the model was loaded successfully; when the model is
\* not loaded it reports unhealthy together with the captured load error; it
\* never reports healthy while inference is unavailable.  The crop service
\* captures no load error and has no unhealthy answer: when its load fails
\* the process ends and the health query is not answered at all.
C15_HealthReflectsLoader ==
    (service \in {"disease_api", "irrigation_api", "crop_api"} /\ phase # "init")
        => /\ ~LoadSucceeded =>
                /\ phase = "serving"
                /\ model_error = LoadError(LoaderFiles[FirstFailure][1], LoaderFiles[FirstFailure][2])
           /\ Answered("health") =>
                /\ resp.status = 200
                /\ (resp.body.status = "healthy") = LoadSucceeded
                /\ ~LoadSucceeded =>
                     /\ resp.body.status = "unhealthy"
                     /\ resp.body.model_loaded = FALSE
                     /\ resp.body.error = LoadError(LoaderFiles[FirstFailure][1], LoaderFiles[FirstFailure][2])
                /\ resp.body.status = "healthy" => ready_at_receipt

\* The process-wide state a service holds after start-up.  The catalogs and
\* the encoding tables are constants of the module; the fitted scaler is a
\* function of the dataset.
ProcessState == <<model, model_loaded, model_error, dataset>>

\* C16 (as claimed): every request is a stateless transform: no request
\* handler of any service changes the process-wide state (the loaded model,
\* the ready flag and error, the fitted scaler, the reference dataset), so
\* that state stays what it was at the end of start-up.  The Flask disease
\* service assigns the global model inside its request handler.
C16_HandlersKeepProcessState ==
    [][(service \in Services /\ phase = "serving") => UNCHANGED ProcessState]_vars

\* C17 (as claimed): in every service the model artifact is loaded at most
\* once per process, at start-up: no request triggers a load attempt, and a
\* failed load is never retried by a later request.  The Flask disease
\* service attempts the load in every request that finds no model.
C17_LoadedOnceAtStartup ==
    /\ [](service \in Services => load_attempts <= 1)
    /\ [][(service \in Services /\ phase = "serving") => UNCHANGED load_attempts]_vars

\* The body the REST service would get for what the irrigation form holds:
\* the form's time_hour and air_temp are the fields time and air_temperature.
AsIrrigationBody(w) == [
    soil_moisture |-> w.soil_moisture, temperature |-> w.temperature,
    soil_humidity |-> w.soil_humidity, time |-> w.time_hour,
    air_temperature |-> w.air_temp, wind_speed |-> w.wind_speed,
    air_humidity |-> w.air_humidity, wind_gust |-> w.wind_gust,
    pressure |-> w.pressure, ph |-> w.ph, rainfall |-> w.rainfall,
    nitrogen |-> w.nitrogen, phosphorus |-> w.phosphorus, potassium |-> w.potassium ]

\* A run of a form's script has shown a prediction.
Shown(field) ==
    /\ resp # None /\ req.pressed
    /\ "page" \in DOMAIN resp
    /\ field \in DOMAIN resp.page

\* C18: for the crop and irrigation domains the REST handler and the form
\* handler are equivalent on every input both accept: their encoding tables
\* and class catalogs are identical, they build the identical fixed-order
\* feature vector, and they report the same label (crop name, or ON/OFF
\* status) for the same model output.
C18_FormsAgreeWithRest ==
    /\ App_district_to_encoded = district_to_encoded
    /\ App_soil_color_to_encoded = soil_color_to_encoded
    /\ App_encoded_to_label = encoded_to_label
    /\ (service = "crop_app" /\ Shown("recommended_crop"))
         => LET w == req.widgets
                encoded_district == DictGet(district_to_encoded, w.district, -1)
                encoded_soil_color == DictGet(soil_color_to_encoded, w.soil_color, -1)
            IN  /\ encoded_district # -1 /\ encoded_soil_color # -1
                /\ calls.scaler.vec = Crop_features(encoded_district, encoded_soil_color, w)
                /\ Crop_format(calls.scores.vec).status = 200
                /\ resp.page.recommended_crop = Crop_format(calls.scores.vec).body.recommended_crop
    /\ (service = "irrigation_app" /\ Shown("status"))
         => LET values == AsIrrigationBody(req.widgets)
                rest == Irrigation_format(calls.scores.class, calls.scores.vec)
            IN  /\ IrrigationInput_errors(values) = {}
                /\ calls.model.vec = Irrigation_features(values)
                /\ rest.status = 200
                /\ resp.page.status = rest.body.status

\* C18 witness: the crop form, with the soil color "Reddish Brown" chosen,
\* showed the crop "Cotton" for a vector whose third element is that
\* color's code 6.
C18_Witness ==
    /\ service = "crop_app" /\ Shown("recommended_crop")
    /\ req.widgets.soil_color = "Reddish Brown"
    /\ calls.scaler.vec[3] = H(6)
    /\ resp.page.recommended_crop = "Cotton"

\* C19 (as claimed): in every disease serving variant (FastAPI, Flask and
\* the dashboard) an uploaded image of any colour mode and any size reaches
\* the model as a single-item batch of one 128x128 image with exactly 3
\* channels and unscaled 0-255 values.  The dashboard does not convert the
\* image to RGB.
C19_ModelInput ==
    (service \in {"disease_api", "disease_flask", "disease_main"}
        /\ resp # None /\ calls.model # None)
        => calls.model = [shape |-> <<1, 128, 128, 3>>, maxval |-> 255]

\* C20 (as claimed): the disease model loader tries trained_model.h5 first
\* and falls back to trained_model.keras when the primary cannot be used:
\* once a load was attempted, the service is ready exactly when one of the
\* two files can be deserialized, and not ready with an error recorded only
\* when both fail (no load being under way).  The FastAPI service and the
\* dashboard fall back only when the primary file does not exist.
C20_LoaderFallback ==
    (service \in {"disease_api", "disease_flask", "disease_main"}
        /\ load_attempts > 0 /\ resp = None /\ inflight = << >>)
        => /\ Ready = (env.h5 = "ok" \/ env.keras = "ok")
           /\ (service = "disease_api" /\ ~Ready) => model_error # None

\* The request makes the handler raise (or, in Flask, return) an
\* invalid-input error: an unknown district, soil color or crop, an upload
\* that is not sent as an image, no upload or an upload without a file name.
RaisesInvalidInput ==
    CASE service = "crop_api" /\ req.op = "predict" ->
           /\ req.body.wellformed
           /\ \/ req.body.values.district \notin KnownDistricts
              \/ req.body.values.soil_color \notin KnownSoilColors
      [] service = "crop_api" /\ req.op = "recommend-fertilizer" ->
           req.body.wellformed /\ req.body.values.crop \notin CatalogCrops
      [] service = "disease_api" /\ req.op = "predict" ->
           /\ req.file.field = "file" /\ ready_at_receipt
           /\ \/ req.file.content_type = None
              \/ req.file.content_type.major # "image"
      [] service = "disease_flask" /\ req.op = "predict" ->
           \/ req.file.field = ""
           \/ req.file.field = "file" /\ req.file.filename = ""
      [] OTHER -> FALSE

\* The request makes the fertilizer lookup raise not-found: a catalog crop
\* without a row in the dataset.
RaisesNotFound ==
    /\ service = "crop_api" /\ req.op = "recommend-fertilizer"
    /\ req.body.wellformed /\ req.body.values.crop \in CatalogCrops
    /\ MatchingRows = {}

\* The text of the exception, other than the two above, that the handler's
\* try block runs into for the request, or None: the upload is not an image
\* file, the model answers a class beyond the catalog, the Flask handler
\* finds no usable part or cannot load the model.
OtherException ==
    CASE service = "disease_api" /\ req.op = "predict"
            /\ req.file.field = "file" /\ ready_at_receipt /\ ~RaisesInvalidInput ->
           IF ~req.file.image.decodable THEN [text |-> "cannot identify image file"]
           ELSE IF \E i \in (Len(CLASS_NAMES) + 1)..Len(calls.scores.vec) :
                        IsFirstMax(calls.scores.vec, i)
           THEN [text |-> "list index out of range"]
           ELSE None
      [] service = "disease_flask" /\ req.op = "predict" /\ ~RaisesInvalidInput ->
           IF req.file.filename = ""
           THEN [text |-> "'NoneType' object has no attribute 'filename'"]
           ELSE IF ~req.file.image.decodable THEN [text |-> "cannot identify image file"]
           ELSE IF model = None THEN [text |-> "Could not load model file"]
           ELSE IF \E i \in (Len(CLASS_NAMES) + 1)..Len(calls.scores.vec) :
                        IsFirstMax(calls.scores.vec, i)
           THEN [text |-> "list index out of range"]
           ELSE None
      [] OTHER -> None

\* The text of the exception a 500 answer carries.
CarriedText ==
    IF service = "disease_flask" THEN resp.error.e ELSE resp.detail.e

\* C21: every request to an inference or lookup operation of a REST service
\* ends in one outcome, a status among 200, 400, 404, 422, 500 and 503.  An
\* invalid-input error raised in a handler reaches the caller as 400 and a
\* not-found error as 404, neither is turned into a 500; any other exception
\* of the handler reaches the caller as 500 with the text of the exception,
\* and a 500 has no other origin.
C21_ErrorKinds ==
    (service \in Services /\ resp # None
        /\ req.op \in {"predict", "recommend-fertilizer", "options", "classes"})
        => /\ resp.status \in {200, 400, 404, 422, 500, 503}
           /\ RaisesInvalidInput => resp.status = 400
           /\ RaisesNotFound => resp.status = 404
           /\ OtherException # None
                => resp.status = 500 /\ CarriedText = OtherException.text
           /\ resp.status = 500 => OtherException # None

\* C21 happens: the fertilizer lookup raised not-found inside its try block
\* for the catalog crop "Wheat", which a dataset with rows has no row of,
\* and the caller got 404 with the name of the crop.
C21_Witness ==
    /\ service = "crop_api" /\ Answered("recommend-fertilizer")
    /\ RaisesNotFound /\ Len(dataset.rows) > 0
    /\ resp = HTTPException(404, [msg |-> "No fertilizer data available for ",
                                  crop |-> "Wheat"])

\* The places where "___" occurs in a label, overlapping ones included.
SeparatorPlaces(label) ==
    {k \in 1..Len(label) :
        k + 2 <= Len(label) /\ SubSeq(label, k, k + 2) = <<"_", "_", "_">>}

\* A catalog has 38 labels, and each holds "___" exactly once, with at least
\* one character before it and one after it.
SplitsInTwo(catalog) ==
    /\ Len(catalog) = 38
    /\ \A i \in 1..Len(catalog) :
         /\ Cardinality(SeparatorPlaces(catalog[i])) = 1
         /\ \A k \in SeparatorPlaces(catalog[i]) : 1 < k /\ k + 2 < Len(catalog[i])

\* The same of each of the three copies of the catalog.
CLASS_NAMES_SplitInTwo == SplitsInTwo(CLASS_NAMES)
Flask_CLASS_NAMES_SplitInTwo == SplitsInTwo(Flask_CLASS_NAMES)
class_name_SplitInTwo == SplitsInTwo(class_name)

\* The model answered a class of the catalog (the first maximum of its
\* scores is among the first 38).
ClassInCatalog ==
    /\ calls.scores # None
    /\ \E i \in 1..38 : IsFirstMax(calls.scores.vec, i)

\* C22: each copy of the disease class catalog (api.py, flask_api.py and
\* main.py) has 38 labels that each contain "___" exactly once with a
\* non-empty part on either side.  So GET /classes answers 200 with the 38
\* labels, each split into a non-empty plant and condition, and a prediction
\* of a class of the catalog is formatted without failing: 200 from the
\* REST services, and a page with a non-empty plant and condition from the
\* dashboard.
C22_LabelsSplit ==
    /\ service = "disease_api" => CLASS_NAMES_SplitInTwo
    /\ service = "disease_flask" => Flask_CLASS_NAMES_SplitInTwo
    /\ service = "disease_main" => class_name_SplitInTwo
    /\ (service = "disease_api" /\ Answered("classes"))
         => /\ resp.status = 200
            /\ resp.body.total_classes = 38 /\ Len(resp.body.classes) = 38
            /\ \A i \in 1..38 :
                 /\ resp.body.classes[i].raw = CLASS_NAMES[i]
                 /\ resp.body.classes[i].plant = Spaced(BeforeSeparator(CLASS_NAMES[i]))
                 /\ resp.body.classes[i].condition = Spaced(AfterSeparator(CLASS_NAMES[i]))
                 /\ resp.body.classes[i].plant # << >>
                 /\ resp.body.classes[i].condition # << >>
    /\ (service \in {"disease_api", "disease_flask"} /\ Answered("predict") /\ ClassInCatalog)
         => resp.status = 200
    /\ (service = "disease_main" /\ resp # None /\ ClassInCatalog)
         => /\ "page" \in DOMAIN resp
            /\ resp.page.plant # << >> /\ resp.page.condition # << >>

\* C22 happens: GET /classes answered all 38 labels, and for the label
\* "Corn_(maize)___Common_rust_" (index 8), which ends in an underscore, the
\* plant "Corn (maize)" and the condition "Common rust ".
C22_Witness ==
    /\ service = "disease_api" /\ Answered("classes") /\ resp.status = 200
    /\ resp.body.classes[9].plant =
         <<"C","o","r","n"," ","(","m","a","i","z","e",")">>
    /\ resp.body.classes[9].condition =
         <<"C","o","m","m","o","n"," ","r","u","s","t"," ">>
====
